---- MODULE Spec2Model ----
(***************************************************************************)
(* Model of the FitCloud cost agent (agent1-actions/fitcloudagent1_lambda) *)
(* and of the supervisor (supervisor/fitcloudSuperVisor).                  *)
(*                                                                         *)
(* Strings that the code inspects character by character (date fields,     *)
(* account ids) are sequences of one-character strings over the alphabet   *)
(* "0".."9" plus "x" (any character that is neither a digit, a sign, an    *)
(* underscore nor white space).  Strings that the code only compares or    *)
(* passes on (paths, tokens, warning texts) are TLA+ strings.              *)
(* A parameter bag (a Python dict) is a function whose DOMAIN is the set   *)
(* of keys present.                                                        *)
(***************************************************************************)
EXTENDS Integers, Sequences, FiniteSets, TLC

VARIABLES
    clock,              \* get_current_date_info(): [y, m, d] in KST
    \* --- the date functions applied to a bag (SpecDates) ---
    dstage,             \* "input" | "corrected" | "validated"
    dparams,            \* the bag handed to smart_date_correction
    dpath,              \* the api_path handed to validate_date_logic
    corrected,          \* smart_date_correction(dparams)
    corrected2,         \* smart_date_correction(corrected)
    warnings,           \* validate_date_logic(corrected, dpath)
    \* --- the cost agent's process and its lambda_handler (SpecHandler) ---
    FITCLOUD_API_TOKEN, \* the module-level token cache: "None", "" or a token
    secret,             \* what the secret store answers get_secret_value with
    validToken,         \* the bearer token the billing API accepts
    pc,                 \* "idle" | "validated" | "token_ok" | "done" (returned)
    event,              \* the event of the current invocation
    params,             \* smart_date_correction(extract_parameters(event))
    target_api_path,
    api_type,
    date_warnings,
    current_token,
    tokenCalls,         \* calls of get_fitcloud_token in this invocation
    secretCalls,        \* calls of secrets_client.get_secret_value in this invocation
    requests,           \* the requests posted to the billing API in this invocation
    apiOutcome,         \* what the last post met: a response, a timeout, ...
    processed_data_wrapper, \* what the projector made of the response
    result,             \* the envelope lambda_handler returned
    \* --- the supervisor's lambda_handler (SpecSupervisor) ---
    spc,                \* "idle" | "agent1_called" | "agent2_called" | "done" (returned)
    sv_event,           \* the event of the current supervisor invocation
    user_input,
    is_report_request,
    agent1_payload,     \* the payload Agent1 was invoked with
    agent1_answer,      \* what lambda_client.invoke met for Agent1
    raw_agent1_response,
    agent1_result_text,
    agent2_payload,     \* the payload Agent2 was invoked with
    agent2_answer,      \* what lambda_client.invoke met for Agent2
    agent2_result,
    reply,              \* the text of the envelope the supervisor returned
    \* --- the summary and projection functions applied to rows (SpecSummary) ---
    sstage,             \* "input" | "done"
    cost_rows,          \* the rows of the billing response's body
    applied,            \* the function applied to cost_rows
    summary,            \* the summary message: its tables, or the exception raised
    items_out,          \* the item list of the projection or of the envelope
    total_out,          \* the total reported with items_out
    \* --- the report agent's Slack upload in generate_excel_report (SpecUpload) ---
    upc,                \* "idle" | "start" | "url_ok" | "posted" | "done"
    ws_title,           \* the title of the report's worksheet
    upload_calls,       \* the requests posted so far, in order
    upload_url,         \* get_upload_url_result['upload_url']
    file_id,            \* get_upload_url_result['file_id']
    upload_result,      \* what generate_excel_report returned or raised
    \* --- the Slack webhook's lambda_handler (SpecSlack) ---
    wpc,                \* "idle" | "received" | "parsed" | "verified" | "invoking" | "done"
    slack_request,      \* the API Gateway event: its headers and body
    slack_now,          \* time.time() of the invocation, in seconds
    cached_secrets,     \* the module-level cache of get_slack_secrets
    secret_store,       \* what Secrets Manager answers get_secret_value with
    verified,           \* "unset", or what verify_slack_request returned
    agent_calls,        \* the invoke_agent calls of this invocation
    slack_posts,        \* the chat.postMessage calls of this invocation
    slack_response      \* what lambda_handler returned

dateVars == <<dstage, dparams, dpath, corrected, corrected2, warnings>>
processVars == <<FITCLOUD_API_TOKEN, secret, validToken>>
runVars == <<pc, event, params, target_api_path, api_type, date_warnings, current_token,
             tokenCalls, secretCalls, requests, apiOutcome, processed_data_wrapper, result>>
handlerVars == <<processVars, runVars>>
supervisorVars == <<spc, sv_event, user_input, is_report_request, agent1_payload,
                    agent1_answer, raw_agent1_response, agent1_result_text, agent2_payload,
                    agent2_answer, agent2_result, reply>>
summaryVars == <<sstage, cost_rows, applied, summary, items_out, total_out>>
uploadVars == <<upc, ws_title, upload_calls, upload_url, file_id, upload_result>>
slackVars == <<wpc, slack_request, slack_now, cached_secrets, secret_store, verified,
               agent_calls, slack_posts, slack_response>>
laterVars == <<summaryVars, uploadVars, slackVars>>
vars == <<clock, dateVars, handlerVars, supervisorVars, laterVars>>

\* the date functions have been applied to nothing
DatesIdle ==
    /\ dstage = "input"
    /\ dparams = [k \in {} |-> <<>>]
    /\ dpath = "None"
    /\ corrected = [k \in {} |-> <<>>]
    /\ corrected2 = [k \in {} |-> <<>>]
    /\ warnings = <<>>

\* the summary functions have been applied to nothing
SummaryIdle ==
    /\ sstage = "idle"
    /\ cost_rows = <<>>
    /\ applied = "none"
    /\ summary = [exc |-> "None", tables |-> <<>>]
    /\ items_out = <<>>
    /\ total_out = 0

\* no report is being uploaded
UploadIdle ==
    /\ upc = "idle"
    /\ ws_title = "ripoteu"
    /\ upload_calls = <<>>
    /\ upload_url = ""
    /\ file_id = ""
    /\ upload_result = [status |-> "none", step |-> 0, file_id |-> "", permalink |-> "",
                        report_title |-> ""]

\* the webhook has received nothing
SlackIdle ==
    /\ wpc = "idle"
    /\ slack_request = [lower |-> TRUE]
    /\ slack_now = 0
    /\ cached_secrets = [is |-> "None", slackSigningSecret |-> "", slackBotToken |-> ""]
    /\ secret_store = [is |-> "None", slackSigningSecret |-> "", slackBotToken |-> ""]
    /\ verified = "unset"
    /\ agent_calls = <<>>
    /\ slack_posts = <<>>
    /\ slack_response = [statusCode |-> 0, body |-> ""]


(***************************************************************************)
(* Characters and strings                                                  *)
(***************************************************************************)
DigitChars == <<"0", "1", "2", "3", "4", "5", "6", "7", "8", "9">>

IsDigitChar(c) == \E i \in 1..10 : DigitChars[i] = c

DigitVal(c) == (CHOOSE i \in 1..10 : DigitChars[i] = c) - 1

\* str.isdigit(): non-empty and every character a digit
isdigit(s) == Len(s) > 0 /\ \A i \in 1..Len(s) : IsDigitChar(s[i])

\* str.strip() leaves nothing: over this alphabet only the empty string
IsBlank(s) == Len(s) = 0

\* int(s) raises ValueError unless s is a decimal numeral
IntOk(s) == isdigit(s)

RECURSIVE IntVal(_)
IntVal(s) ==
    IF Len(s) = 0 THEN 0
    ELSE 10 * IntVal(SubSeq(s, 1, Len(s) - 1)) + DigitVal(s[Len(s)])

\* str(n) for n >= 0
RECURSIVE str(_)
str(n) ==
    IF n < 10 THEN <<DigitChars[n + 1]>>
    ELSE str(n \div 10) \o <<DigitChars[(n % 10) + 1]>>

\* s.zfill(w): pad with "0" on the left up to width w
RECURSIVE zfill(_, _)
zfill(s, w) == IF Len(s) >= w THEN s ELSE zfill(<<"0">> \o s, w)

\* s[:n] and s[n:]
Prefix(s, n) == SubSeq(s, 1, IF n < Len(s) THEN n ELSE Len(s))
Suffix(s, n) == SubSeq(s, n + 1, Len(s))

(***************************************************************************)
(* Calendar: datetime.strptime(s, '%Y%m%d') and date comparison            *)
(***************************************************************************)
IsLeap(y) == (y % 4 = 0 /\ y % 100 # 0) \/ y % 400 = 0

DaysInMonth(y, m) ==
    IF m = 2 THEN (IF IsLeap(y) THEN 29 ELSE 28)
    ELSE IF m \in {4, 6, 9, 11} THEN 30 ELSE 31

\* %m is the regex 1[0-2]|0[1-9]|[1-9] tried at position i
MonthMatch(s, i, w) ==
    IF w = 2
    THEN /\ i + 1 <= Len(s)
         /\ \/ s[i] = "1" /\ s[i + 1] \in {"0", "1", "2"}
            \/ s[i] = "0" /\ IsDigitChar(s[i + 1]) /\ s[i + 1] # "0"
    ELSE i <= Len(s) /\ IsDigitChar(s[i]) /\ s[i] # "0"

\* %d is the regex 3[0-1]|[1-2]\d|0[1-9]|[1-9] tried at position i
DayMatch(s, i, w) ==
    IF w = 2
    THEN /\ i + 1 <= Len(s)
         /\ \/ s[i] = "3" /\ s[i + 1] \in {"0", "1"}
            \/ s[i] \in {"1", "2"} /\ IsDigitChar(s[i + 1])
            \/ s[i] = "0" /\ IsDigitChar(s[i + 1]) /\ s[i + 1] # "0"
    ELSE i <= Len(s) /\ IsDigitChar(s[i]) /\ s[i] # "0"

\* The field widths the regex settles on: alternatives in order, backtracking
\* into %m only when %d cannot match.
FieldWidths == <<<<2, 2>>, <<2, 1>>, <<1, 2>>, <<1, 1>>>>

\* strptime(s, '%Y%m%d'): [ok |-> FALSE] stands for ValueError
strptime(s) ==
    LET yOk == Len(s) >= 4 /\ \A i \in 1..4 : IsDigitChar(s[i])
        fits == {k \in 1..4 : /\ MonthMatch(s, 5, FieldWidths[k][1])
                             /\ DayMatch(s, 5 + FieldWidths[k][1], FieldWidths[k][2])}
    IN  IF ~yOk \/ fits = {} THEN [ok |-> FALSE]
        ELSE LET k  == CHOOSE j \in fits : \A j2 \in fits : j <= j2
                 mw == FieldWidths[k][1]
                 dw == FieldWidths[k][2]
                 y  == IntVal(SubSeq(s, 1, 4))
                 m  == IntVal(SubSeq(s, 5, 4 + mw))
                 d  == IntVal(SubSeq(s, 5 + mw, 4 + mw + dw))
             IN  IF 4 + mw + dw # Len(s) THEN [ok |-> FALSE]   \* unconverted data remains
                 ELSE IF y < 1 \/ d > DaysInMonth(y, m) THEN [ok |-> FALSE]
                 ELSE [ok |-> TRUE, y |-> y, m |-> m, d |-> d]

\* date objects compare by (year, month, day)
DateOrd(dt) == dt.y * 10000 + dt.m * 100 + dt.d

(***************************************************************************)
(* Parameter bags                                                          *)
(***************************************************************************)
Absent == <<"ABSENT">>

\* dict.get(k, '')
Get(p, k) == IF k \in DOMAIN p THEN p[k] ELSE <<>>

\* p with p[k] = v
Put(p, k, v) == [x \in DOMAIN p \cup {k} |-> IF x = k THEN v ELSE p[x]]

\* the bag holding the keys of record r whose value is not Absent
MkBag(r) == [k \in {x \in DOMAIN r : r[x] # Absent} |-> r[k]]

(***************************************************************************)
(* smart_date_correction                                                   *)
(***************************************************************************)
\* DefaultDates defaulting to the clock's month instead of its date
DefaultDates_Month(p, clk) ==
    IF "from" \notin DOMAIN p /\ "to" \notin DOMAIN p /\ "billingPeriod" \notin DOMAIN p
    THEN LET month_str == str(clk.y) \o zfill(str(clk.m), 2)
         IN  Put(Put(p, "from", month_str), "to", month_str)
    ELSE p

\* lines 54-62: with neither from nor to and no billingPeriod, both default to today
DefaultDates(p, clk) ==
    IF "from" \notin DOMAIN p /\ "to" \notin DOMAIN p /\ "billingPeriod" \notin DOMAIN p
    THEN LET today_str == str(clk.y) \o zfill(str(clk.m), 2) \o zfill(str(clk.d), 2)
         IN  Put(Put(p, "from", today_str), "to", today_str)
    ELSE p

\* YearCorrection without the check of the rewritten value (lines 97-100)
YearCorrection_NoRevalidate(v, clk) ==
    LET year_part   == Prefix(v, 4)
        suffix_part == Suffix(v, 4)
    IN  IF ~IntOk(year_part) THEN v
        ELSE IF IntVal(year_part) < clk.y - 5 /\ IntVal(year_part) >= 2020
        THEN str(clk.y) \o suffix_part
        ELSE v

\* lines 89-104: the year of a 6- or 8-character value is replaced by the
\* current year when it is at least 2020 and more than 5 years old
YearCorrection(v, clk) ==
    LET year_part   == Prefix(v, 4)
        suffix_part == Suffix(v, 4)
        corrected_value == str(clk.y) \o suffix_part
    IN  IF ~IntOk(year_part) THEN v
        ELSE IF IntVal(year_part) < clk.y - 5 /\ IntVal(year_part) >= 2020
        THEN IF Len(corrected_value) = 8
             THEN (IF strptime(corrected_value).ok THEN corrected_value ELSE v)
             ELSE IF Len(corrected_value) = 6
             THEN (IF strptime(corrected_value \o <<"0", "1">>).ok THEN corrected_value ELSE v)
             ELSE corrected_value
        ELSE v

\* CorrectValue with the bare-month branch zero-padding the month but leaving
\* out the year
CorrectValue_MonthOnly(v, clk) ==
    IF Len(v) = 1 \/ (Len(v) = 2 /\ isdigit(v))
    THEN (IF Len(v) = 1 THEN zfill(v, 2) ELSE str(clk.y) \o v)
    ELSE IF Len(v) = 4 /\ isdigit(v) /\ strptime(str(clk.y) \o v).ok
    THEN str(clk.y) \o v
    ELSE IF Len(v) = 8 \/ Len(v) = 6
    THEN YearCorrection(v, clk)
    ELSE v

\* CorrectValue with the MMDD branch not checking the date it builds
CorrectValue_AnyMMDD(v, clk) ==
    IF Len(v) = 1 \/ (Len(v) = 2 /\ isdigit(v))
    THEN str(clk.y) \o zfill(v, 2)
    ELSE IF Len(v) = 4 /\ isdigit(v)
    THEN str(clk.y) \o v
    ELSE IF Len(v) = 8 \/ Len(v) = 6
    THEN YearCorrection(v, clk)
    ELSE v

\* CorrectValue with the bare-month branch not padding the month
CorrectValue_NoPad(v, clk) ==
    IF Len(v) = 1 \/ (Len(v) = 2 /\ isdigit(v))
    THEN str(clk.y) \o v
    ELSE IF Len(v) = 4 /\ isdigit(v) /\ strptime(str(clk.y) \o v).ok
    THEN str(clk.y) \o v
    ELSE IF Len(v) = 8 \/ Len(v) = 6
    THEN YearCorrection(v, clk)
    ELSE v

\* lines 65-104: one pass of the loop body for the value of one parameter
CorrectValue(v, clk) ==
    IF Len(v) = 1 \/ (Len(v) = 2 /\ isdigit(v))
    THEN str(clk.y) \o zfill(v, 2)
    ELSE IF Len(v) = 4 /\ isdigit(v) /\ strptime(str(clk.y) \o v).ok
    THEN str(clk.y) \o v
    ELSE IF Len(v) = 8 \/ Len(v) = 6
    THEN YearCorrection(v, clk)
    ELSE v

CorrectParam(p, k, clk) ==
    IF IsBlank(Get(p, k)) THEN p ELSE Put(p, k, CorrectValue(p[k], clk))

smart_date_correction(bag, clk) ==
    CorrectParam(CorrectParam(DefaultDates(bag, clk), "from", clk), "to", clk)

(***************************************************************************)
(* validate_date_logic                                                     *)
(* A warning is modelled by a tag naming the message it carries.           *)
(***************************************************************************)
CostPaths ==
    {"/costs/ondemand/corp/monthly", "/costs/ondemand/account/monthly",
     "/costs/ondemand/corp/daily", "/costs/ondemand/account/daily"}

MonthlyCostPaths == {"/costs/ondemand/account/monthly", "/costs/ondemand/corp/monthly"}

\* lines 119-132: required parameters (in order) and date format per path
api_requirements ==
    [p \in CostPaths \cup {"/invoice/corp/monthly", "/invoice/account/monthly",
                           "/usage/ondemand/monthly", "/usage/ondemand/daily",
                           "/usage/ondemand/tags"} |->
        CASE p = "/costs/ondemand/corp/monthly"    -> [required |-> <<"from", "to">>, format |-> "YYYYMM"]
          [] p = "/costs/ondemand/account/monthly" -> [required |-> <<"from", "to", "accountId">>, format |-> "YYYYMM"]
          [] p = "/costs/ondemand/corp/daily"      -> [required |-> <<"from", "to">>, format |-> "YYYYMMDD"]
          [] p = "/costs/ondemand/account/daily"   -> [required |-> <<"from", "to", "accountId">>, format |-> "YYYYMMDD"]
          [] p = "/invoice/corp/monthly"           -> [required |-> <<"billingPeriod">>, format |-> "YYYYMM"]
          [] p = "/invoice/account/monthly"        -> [required |-> <<"billingPeriod">>, format |-> "YYYYMM"]
          [] p = "/usage/ondemand/monthly"         -> [required |-> <<"from", "to">>, format |-> "YYYYMM"]
          [] p = "/usage/ondemand/daily"           -> [required |-> <<"from", "to">>, format |-> "YYYYMMDD"]
          [] p = "/usage/ondemand/tags"            -> [required |-> <<"beginDate", "endDate">>, format |-> "YYYYMMDD"]]

\* the elements of sequence s that satisfy Keep, in order
RECURSIVE SelectKeys(_, _)
SelectKeys(s, keep) ==
    IF Len(s) = 0 THEN <<>>
    ELSE (IF Head(s) \in keep THEN <<Head(s)>> ELSE <<>>) \o SelectKeys(Tail(s), keep)

\* lines 140-142: with billingPeriod present the monthly cost paths do not require from/to
RequiredParams(bag, api_path) ==
    LET req == api_requirements[api_path].required
    IN  IF api_path \in MonthlyCostPaths /\ "billingPeriod" \in DOMAIN bag
        THEN SelectKeys(req, {"accountId"})
        ELSE req

\* lines 145-148
MissingParams(bag, required_params) ==
    SelectKeys(required_params,
               {k \in {"from", "to", "accountId", "billingPeriod", "beginDate", "endDate"} :
                    k \notin DOMAIN bag \/ IsBlank(bag[k])})

\* lines 155-164: one format warning per required parameter of the wrong shape
RECURSIVE FormatWarnings(_, _, _)
FormatWarnings(bag, required_params, expected_format) ==
    IF Len(required_params) = 0 THEN <<>>
    ELSE LET param == Head(required_params)
             v     == bag[param]
             w     == IF param = "accountId"
                      THEN (IF Len(v) = 12 /\ isdigit(v) THEN <<>> ELSE <<"accountId_format">>)
                      ELSE IF expected_format = "YYYYMM" /\ ~(Len(v) = 6 /\ isdigit(v))
                      THEN <<"not_YYYYMM">>
                      ELSE IF expected_format = "YYYYMMDD" /\ ~(Len(v) = 8 /\ isdigit(v))
                      THEN <<"not_YYYYMMDD">>
                      ELSE <<>>
         IN  w \o FormatWarnings(bag, Tail(required_params), expected_format)

\* IsFutureMonth comparing months within the clock's year only
IsFutureMonth_SameYear(year, month, clk) == year = clk.y /\ month > clk.m

\* lines 230-233: a (year, month) after the clock's
IsFutureMonth(year, month, clk) == year > clk.y \/ (year = clk.y /\ month > clk.m)

\* lines 167-184
BillingPeriodWarnings(bag, clk) ==
    IF "billingPeriod" \notin DOMAIN bag THEN <<>>
    ELSE LET billing_period == bag["billingPeriod"]
         IN  IF Len(billing_period) # 6 THEN <<>>
             ELSE IF ~IntOk(Prefix(billing_period, 4)) \/ ~IntOk(Suffix(billing_period, 4))
             THEN <<"billingPeriod_parse_error">>
             ELSE IF IsFutureMonth(IntVal(Prefix(billing_period, 4)),
                                   IntVal(Suffix(billing_period, 4)), clk)
             THEN <<"future_month">>
             ELSE <<>>

\* DailyPairWarnings taking the clock's own date for a future date
DailyPairWarnings_TodayFuture(a, b, clk) ==
    LET from_dt == strptime(a)
        to_dt   == strptime(b)
        today   == clk.y * 10000 + clk.m * 100 + clk.d
    IN  IF ~from_dt.ok \/ ~to_dt.ok THEN <<"date_parse_error">>
        ELSE (IF DateOrd(from_dt) > DateOrd(to_dt) THEN <<"from_after_to">> ELSE <<>>)
             \o (IF DateOrd(from_dt) >= today \/ DateOrd(to_dt) >= today
                 THEN <<"future_date">> ELSE <<>>)

\* lines 196-199 and 210-217 (also 248-258): two 8-character values
DailyPairWarnings(a, b, clk) ==
    LET from_dt == strptime(a)
        to_dt   == strptime(b)
        today   == clk.y * 10000 + clk.m * 100 + clk.d
    IN  IF ~from_dt.ok \/ ~to_dt.ok THEN <<"date_parse_error">>
        ELSE (IF DateOrd(from_dt) > DateOrd(to_dt) THEN <<"from_after_to">> ELSE <<>>)
             \o (IF DateOrd(from_dt) > today \/ DateOrd(to_dt) > today
                 THEN <<"future_date">> ELSE <<>>)

\* lines 200-204 and 210-237: two 6-character values; to is taken as the last
\* day of its month (the 1st plus 32 days, back to the 1st, minus one day)
MonthlyPairWarnings(a, b, clk) ==
    LET from_dt == strptime(a \o <<"0", "1">>)
        to_1st  == strptime(b \o <<"0", "1">>)
    IN  IF ~from_dt.ok \/ ~to_1st.ok THEN <<"date_parse_error">>
        ELSE LET to_dt == [y |-> to_1st.y, m |-> to_1st.m, d |-> DaysInMonth(to_1st.y, to_1st.m)]
             IN  (IF DateOrd(from_dt) > DateOrd(to_dt) THEN <<"from_after_to">> ELSE <<>>)
                 \o (IF \/ IsFutureMonth(IntVal(Prefix(a, 4)), IntVal(Suffix(a, 4)), clk)
                        \/ IsFutureMonth(IntVal(Prefix(b, 4)), IntVal(Suffix(b, 4)), clk)
                     THEN <<"future_month">> ELSE <<>>)

\* lines 187-240: [w |-> warnings, ret |-> TRUE when the function returns here]
FromToWarnings(bag, clk) ==
    IF ~("from" \in DOMAIN bag /\ "to" \in DOMAIN bag) THEN [w |-> <<>>, ret |-> FALSE]
    ELSE LET from_str == bag["from"]
             to_str   == bag["to"]
         IN  IF Len(from_str) = 8 /\ Len(to_str) = 8
             THEN [w |-> DailyPairWarnings(from_str, to_str, clk), ret |-> FALSE]
             ELSE IF Len(from_str) = 6 /\ Len(to_str) = 6
             THEN [w |-> MonthlyPairWarnings(from_str, to_str, clk), ret |-> FALSE]
             ELSE [w |-> <<"bad_from_to_format">>, ret |-> TRUE]

\* lines 243-264
BeginEndWarnings(bag, clk) ==
    IF ~("beginDate" \in DOMAIN bag /\ "endDate" \in DOMAIN bag) THEN <<>>
    ELSE LET begin_str == bag["beginDate"]
             end_str   == bag["endDate"]
         IN  IF Len(begin_str) = 8 /\ Len(end_str) = 8
             THEN DailyPairWarnings(begin_str, end_str, clk)
             ELSE <<"bad_begin_end_format">>

\* api_path is a path or "None"
validate_date_logic(bag, api_path, clk) ==
    LET known   == api_path \in DOMAIN api_requirements
        req     == IF known THEN RequiredParams(bag, api_path) ELSE <<>>
        missing == MissingParams(bag, req)
    IN  IF known /\ Len(missing) > 0 THEN <<"missing_parameters">>
        ELSE LET fmt == IF known
                        THEN FormatWarnings(bag, req, api_requirements[api_path].format)
                        ELSE <<>>
                 bp  == BillingPeriodWarnings(bag, clk)
                 ft  == FromToWarnings(bag, clk)
             IN  IF ft.ret THEN fmt \o bp \o ft.w
                 ELSE fmt \o bp \o ft.w \o BeginEndWarnings(bag, clk)

EmptyBag == [k \in {} |-> <<>>]

\* what lambda_handler reads of inputText: the month of a "<n>월" mention, the
\* two days of a "<a>~<b>" range, and whether the keyword lists match
NoText == [month |-> Absent, days |-> <<Absent, Absent>>, invoice |-> FALSE,
           usage |-> FALSE, tag |-> FALSE, account |-> FALSE]

NoEvent == [parameters |-> EmptyBag, apiPath |-> "", inputText |-> NoText]
\* the body field of a header/body response: absent, null, or a list of
\* items. An item is "charged" (an object of the requested account with
\* non-zero amounts), "free" (zero amounts), "foreign" (non-zero amounts,
\* another account) or "scalar" (not an object)
AbsentBody == [is |-> "absent", items |-> <<>>]
NullBody == [is |-> "null", items |-> <<>>]
ListBody(items) == [is |-> "list", items |-> items]

NoOutcome == [kind |-> "none", status |-> 0, json |-> "none", code |-> 0,
              message |-> "", body |-> AbsentBody]
\* no projector has run
NoWrapper == [exc |-> "None", text |-> <<>>, key |-> "None", items |-> <<>>, null |-> FALSE]
NoResult == [httpStatusCode |-> 0, success |-> FALSE, error |-> <<>>, keys |-> {},
             items |-> <<>>]

\* a freshly loaded process in which lambda_handler has not run
RunIdle ==
    /\ pc = "idle"
    /\ event = NoEvent
    /\ params = EmptyBag
    /\ target_api_path = "None"
    /\ api_type = "None"
    /\ date_warnings = <<>>
    /\ current_token = "None"
    /\ tokenCalls = 0
    /\ secretCalls = 0
    /\ requests = <<>>
    /\ apiOutcome = NoOutcome
    /\ processed_data_wrapper = NoWrapper
    /\ result = NoResult

HandlerIdle ==
    /\ FITCLOUD_API_TOKEN = "None"
    /\ secret = "fail"
    /\ validToken = "tokA"
    /\ RunIdle

\* a text: a JSON document or plain text, as a sequence of fragments
EmptyText == [json |-> "no", toks |-> <<>>]

NoSvEvent ==
    [user_input |-> Absent, parameters |-> [kind |-> "absent", user_input |-> Absent],
     requestBody |-> [kind |-> "absent", user_input |-> Absent], inputText |-> Absent]

NoPayload == [sent |-> FALSE, inputText |-> EmptyText, agent1_response |-> EmptyText,
              agent1_raw_response |-> EmptyText]

NoAnswer == [shape |-> "none", text |-> EmptyText]

\* no supervisor invocation in progress
SupervisorIdle ==
    /\ spc = "idle"
    /\ sv_event = NoSvEvent
    /\ user_input = Absent
    /\ is_report_request = FALSE
    /\ agent1_payload = Absent
    /\ agent1_answer = NoAnswer
    /\ raw_agent1_response = EmptyText
    /\ agent1_result_text = EmptyText
    /\ agent2_payload = NoPayload
    /\ agent2_answer = NoAnswer
    /\ agent2_result = "None"
    /\ reply = <<>>

(***************************************************************************)
(* SpecDates: the two date functions applied to bags drawn from the        *)
(* shapes the code distinguishes                                           *)
(***************************************************************************)
\* the decimal numeral of n, zero-padded to width w
Num(n, w) == zfill(str(n), w)

Clocks ==
    {[y |-> 2025, m |-> 6, d |-> 15],
     [y |-> 2026, m |-> 3, d |-> 1],
     [y |-> 2028, m |-> 2, d |-> 29]}

FromValues ==
    {Absent, <<>>, <<"5">>, <<"x">>, Num(5, 2), Num(13, 2), <<"x", "x">>,
     Num(230, 4), Num(229, 4), Num(603, 4), Num(1332, 4), <<"0", "6", "x", "3">>,
     Num(202506, 6), Num(202005, 6), Num(202013, 6), <<"2", "0", "2", "0", "x", "5">>,
     Num(20250601, 8), Num(20200601, 8), Num(20200229, 8), Num(20290101, 8)}

ToValues ==
    {Absent, <<>>, <<"7">>, Num(230, 4), Num(202506, 6), Num(202001, 6),
     Num(20250615, 8), Num(20200630, 8)}

BillingPeriodValues == {Absent, Num(202501, 6), Num(202513, 6), Num(2025, 4), Num(202912, 6)}

BeginEndValues ==
    {<<Absent, Absent>>, <<Num(20250601, 8), Num(20250605, 8)>>, <<Num(20250605, 8), Absent>>}

AccountIdValues == {Absent, Num(123456, 6) \o Num(789012, 6)}

DatePaths ==
    {"None", "/accounts", "/costs/ondemand/corp/monthly", "/costs/ondemand/account/daily",
     "/invoice/corp/monthly", "/usage/ondemand/daily", "/usage/ondemand/tags"}

DateBags ==
    {MkBag([from |-> f, to |-> t, billingPeriod |-> b, beginDate |-> be[1],
            endDate |-> be[2], accountId |-> a]) :
        f \in FromValues, t \in ToValues, b \in BillingPeriodValues,
        be \in BeginEndValues, a \in AccountIdValues}

InitDates ==
    /\ SummaryIdle /\ UploadIdle /\ SlackIdle
    /\ clock \in Clocks
    /\ dstage = "input"
    /\ dparams \in DateBags
    /\ dpath \in DatePaths
    /\ corrected = EmptyBag
    /\ corrected2 = EmptyBag
    /\ warnings = <<>>
    /\ HandlerIdle
    /\ SupervisorIdle

\* params = smart_date_correction(params)
Correct ==
    /\ dstage = "input"
    /\ corrected' = smart_date_correction(dparams, clock)
    /\ dstage' = "corrected"
    /\ UNCHANGED <<clock, laterVars, dparams, dpath, corrected2, warnings, handlerVars, supervisorVars>>

\* the normalized bag normalized once more
CorrectAgain ==
    /\ dstage = "corrected"
    /\ corrected2' = smart_date_correction(corrected, clock)
    /\ dstage' = "twice"
    /\ UNCHANGED <<clock, laterVars, dparams, dpath, corrected, warnings, handlerVars, supervisorVars>>

\* date_warnings = validate_date_logic(params, api_path)
Validate ==
    /\ dstage = "twice"
    /\ warnings' = validate_date_logic(corrected, dpath, clock)
    /\ dstage' = "validated"
    /\ UNCHANGED <<clock, laterVars, dparams, dpath, corrected, corrected2, handlerVars, supervisorVars>>

NextDates == Correct \/ CorrectAgain \/ Validate

SpecDates == InitDates /\ [][NextDates]_vars

(***************************************************************************)
(* Calendar facts stated independently of strptime, for the claims         *)
(***************************************************************************)
RealMonth(v) ==
    /\ Len(v) = 6 /\ isdigit(v)
    /\ IntVal(Prefix(v, 4)) >= 1
    /\ IntVal(Suffix(v, 4)) \in 1..12

RealDate(v) ==
    /\ Len(v) = 8 /\ isdigit(v)
    /\ IntVal(Prefix(v, 4)) >= 1
    /\ IntVal(SubSeq(v, 5, 6)) \in 1..12
    /\ IntVal(SubSeq(v, 7, 8)) \in 1..DaysInMonth(IntVal(Prefix(v, 4)), IntVal(SubSeq(v, 5, 6)))

\* C1: normalizing a normalized bag changes nothing: the second pass of
\* smart_date_correction returns the bag the first pass returned (same keys,
\* same values), for every shape of from/to.
C1_Idempotent == dstage \in {"twice", "validated"} => corrected2 = corrected

\* a bag whose from or to was rewritten by the first pass, normalized twice
C1_Witness ==
    /\ dstage = "twice"
    /\ \E k \in {"from", "to"} : k \in DOMAIN dparams /\ corrected[k] # dparams[k]

\* a 4-digit value that is no month and day of the clock's year
InvalidMMDD(v, clk) ==
    /\ Len(v) = 4 /\ isdigit(v)
    /\ ~RealDate(str(clk.y) \o v)

\* C2: when smart_date_correction left a 4-digit from/to unchanged because it
\* is no valid MMDD of the clock's year, validate_date_logic returns at least
\* one warning, whatever the other parameters and the endpoint path.
C2_InvalidMMDDFlagged ==
    (/\ dstage = "validated"
     /\ \E k \in {"from", "to"} :
            /\ k \in DOMAIN dparams
            /\ InvalidMMDD(dparams[k], clock)
            /\ corrected[k] = dparams[k])
    => warnings # <<>>

\* the clock's (year, month) or an earlier one
NotFutureMonth(v, clk) ==
    ~IsFutureMonth(IntVal(Prefix(v, 4)), IntVal(Suffix(v, 4)), clk)

NotFutureDate(v, clk) == IntVal(v) <= clk.y * 10000 + clk.m * 100 + clk.d

\* two months, or two days, in order and not in the future
ValidRange(a, b, clk) ==
    \/ /\ RealMonth(a) /\ RealMonth(b)
       /\ IntVal(a) <= IntVal(b)
       /\ NotFutureMonth(a, clk) /\ NotFutureMonth(b, clk)
    \/ /\ RealDate(a) /\ RealDate(b)
       /\ IntVal(a) <= IntVal(b)
       /\ NotFutureDate(a, clk) /\ NotFutureDate(b, clk)

\* every date-like field present in p is well-formed, paired, ordered and not
\* in the future
DateFieldsValid(p, clk) ==
    /\ "billingPeriod" \in DOMAIN p =>
            RealMonth(p["billingPeriod"]) /\ NotFutureMonth(p["billingPeriod"], clk)
    /\ "from" \in DOMAIN p <=> "to" \in DOMAIN p
    /\ "from" \in DOMAIN p /\ "to" \in DOMAIN p => ValidRange(p["from"], p["to"], clk)
    /\ "beginDate" \in DOMAIN p <=> "endDate" \in DOMAIN p
    /\ "beginDate" \in DOMAIN p /\ "endDate" \in DOMAIN p =>
            /\ RealDate(p["beginDate"]) /\ RealDate(p["endDate"])
            /\ ValidRange(p["beginDate"], p["endDate"], clk)

\* C3: validate_date_logic returns no warning only for a bag whose present
\* date-like fields are all well-formed, paired, ordered and not in the future
\* (no bag with a malformed or unpaired date field yields the empty list).
C3_EmptyOnlyIfValid ==
    dstage = "validated" /\ warnings = <<>> => DateFieldsValid(corrected, clock)

(***************************************************************************)
(* extract_parameters                                                      *)
(***************************************************************************)
UsagePaths == {"/usage/ondemand/monthly", "/usage/ondemand/daily", "/usage/ondemand/tags"}

InvoicePaths == {"/invoice/corp/monthly", "/invoice/account/monthly"}

\* path.startswith(prefix), for the prefixes the code tests
startswith(path, prefix) ==
    CASE prefix = "/costs/ondemand/"      -> path \in CostPaths
      [] prefix = "/usage/ondemand/"      -> path \in UsagePaths
      [] prefix = "/usage/ondemand/tags"  -> path = "/usage/ondemand/tags"
      [] prefix = "/invoice/"             -> path \in InvoicePaths

\* bag.get(k) is truthy: present and not the empty string
Truthy(bag, k) == k \in DOMAIN bag /\ Len(bag[k]) > 0

\* lines 786-816: dates found in inputText overwrite the parameters
TextDates(bag, ev, clk) ==
    LET year == str(clk.y)
        t    == ev.inputText
        mm   == zfill(t.month, 2)
    IN  IF t.month # Absent /\ t.days[1] # Absent
        THEN LET a == year \o mm \o zfill(t.days[1], 2)
                 b == year \o mm \o zfill(t.days[2], 2)
             IN  IF startswith(ev.apiPath, "/usage/ondemand/tags")
                 THEN Put(Put(bag, "beginDate", a), "endDate", b)
                 ELSE Put(Put(bag, "from", a), "to", b)
        ELSE IF t.month # Absent
        THEN IF startswith(ev.apiPath, "/costs/ondemand/") \/ startswith(ev.apiPath, "/usage/ondemand/")
             THEN Put(Put(bag, "from", year \o mm), "to", year \o mm)
             ELSE IF startswith(ev.apiPath, "/invoice/")
             THEN Put(bag, "billingPeriod", year \o mm)
             ELSE bag
        ELSE bag

\* lines 818-823: a bare month in any date field gets the current year
MonthOnlyFix(bag, clk) ==
    [k \in DOMAIN bag |->
        IF /\ k \in {"from", "to", "billingPeriod", "beginDate", "endDate"}
           /\ (Len(bag[k]) = 1 \/ (Len(bag[k]) = 2 /\ isdigit(bag[k])))
        THEN str(clk.y) \o zfill(bag[k], 2)
        ELSE bag[k]]

\* lines 825-829: billingPeriod and billingPeriodDaily derived from from
DerivedPeriods(bag) ==
    LET b1 == IF ~Truthy(bag, "billingPeriod") /\ Truthy(bag, "from") /\ Len(bag["from"]) >= 6
              THEN Put(bag, "billingPeriod", Prefix(bag["from"], 6))
              ELSE bag
    IN  IF ~Truthy(b1, "billingPeriodDaily") /\ Truthy(b1, "from") /\ Len(b1["from"]) = 8
        THEN Put(b1, "billingPeriodDaily", b1["from"])
        ELSE b1

\* ev.parameters stands for the parameters list and the request body merged
extract_parameters(ev, clk) ==
    DerivedPeriods(MonthOnlyFix(TextDates(ev.parameters, ev, clk), clk))

(***************************************************************************)
(* Endpoint selection                                                      *)
(***************************************************************************)
\* determine_api_path (defined by the module, not called by lambda_handler)
determine_api_path(bag) ==
    LET has_billing_period == Truthy(bag, "billingPeriod")
        has_account_id     == Truthy(bag, "accountId")
        date_format == IF Truthy(bag, "from") /\ Len(bag["from"]) = 8 THEN "daily"
                       ELSE IF Truthy(bag, "from") /\ Len(bag["from"]) = 6 THEN "monthly"
                       ELSE "None"
    IN  IF has_billing_period
        THEN (IF has_account_id THEN "/costs/ondemand/account/monthly"
              ELSE "/costs/ondemand/corp/monthly")
        ELSE IF has_account_id
        THEN (IF date_format = "monthly" THEN "/costs/ondemand/account/monthly"
              ELSE "/costs/ondemand/account/daily")
        ELSE (IF date_format = "monthly" THEN "/costs/ondemand/corp/monthly"
              ELSE "/costs/ondemand/corp/daily")

\* lambda_handler lines 963: has_account
HasAccount(bag, ev) ==
    "accountId" \in DOMAIN bag \/ "accountName" \in DOMAIN bag \/ ev.inputText.account

\* SelectEndpoint with the /accounts test ahead of the beginDate/endDate test
SelectEndpoint_AccountsFirst(bag, ev) ==
    IF ev.apiPath = "/accounts"
    THEN [path |-> "/accounts", type |-> "accounts"]
    ELSE IF "beginDate" \in DOMAIN bag /\ "endDate" \in DOMAIN bag
    THEN [path |-> "/usage/ondemand/tags", type |-> "usage_tag"]
    ELSE [path |-> "/costs/ondemand/corp/monthly", type |-> "costs_monthly"]

\* lambda_handler lines 952-993: [path, type]
SelectEndpoint(bag, ev) ==
    LET daily == "from" \in DOMAIN bag /\ Len(bag["from"]) = 8
        acct  == HasAccount(bag, ev)
    IN  IF "beginDate" \in DOMAIN bag /\ "endDate" \in DOMAIN bag
        THEN [path |-> "/usage/ondemand/tags", type |-> "usage_tag"]
        ELSE IF ev.apiPath = "/accounts"
        THEN [path |-> "/accounts", type |-> "accounts"]
        ELSE IF ev.inputText.invoice
        THEN (IF acct THEN [path |-> "/invoice/account/monthly", type |-> "invoice_account"]
              ELSE [path |-> "/invoice/corp/monthly", type |-> "invoice_corp"])
        ELSE IF ev.inputText.usage
        THEN (IF ev.inputText.tag THEN [path |-> "/usage/ondemand/tags", type |-> "usage_tag"]
              ELSE IF daily THEN [path |-> "/usage/ondemand/daily", type |-> "usage_daily"]
              ELSE [path |-> "/usage/ondemand/monthly", type |-> "usage_monthly"])
        ELSE IF daily
        THEN [path |-> (IF acct THEN "/costs/ondemand/account/daily"
                        ELSE "/costs/ondemand/corp/daily"), type |-> "costs_daily"]
        ELSE [path |-> (IF acct THEN "/costs/ondemand/account/monthly"
                        ELSE "/costs/ondemand/corp/monthly"), type |-> "costs_monthly"]

(***************************************************************************)
(* get_fitcloud_token, the request, the response and the envelope          *)
(***************************************************************************)
\* get_fitcloud_token lines 286-302 with cache c and secret store answer sec:
\* cache is the value FITCLOUD_API_TOKEN is left with, fetched tells whether
\* get_secret_value was called, raised whether RuntimeError was raised
get_fitcloud_token(c, sec) ==
    IF c # "None"
    THEN [cache |-> c, fetched |-> FALSE, raised |-> FALSE, token |-> c]
    ELSE CASE sec = "fail"   -> [cache |-> "None", fetched |-> TRUE, raised |-> TRUE, token |-> "None"]
           [] sec = "binary" -> [cache |-> "None", fetched |-> TRUE, raised |-> TRUE, token |-> "None"]
           [] sec = "nokey"  -> [cache |-> "None", fetched |-> TRUE, raised |-> TRUE, token |-> "None"]
           [] sec = "empty"  -> [cache |-> "", fetched |-> TRUE, raised |-> TRUE, token |-> "None"]
           [] OTHER          -> [cache |-> sec, fetched |-> TRUE, raised |-> FALSE, token |-> sec]

\* the entries of bag under the keys ks
Only(bag, ks) == [k \in DOMAIN bag \cap ks |-> bag[k]]

\* lambda_handler lines 1018-1114: the form body posted to path, or
\* "unsupported" for a path no branch handles
api_data(path, bag) ==
    IF path = "/accounts" THEN EmptyBag
    ELSE IF path \in MonthlyCostPaths
    THEN Only(bag, IF path = "/costs/ondemand/account/monthly"
                   THEN {"from", "to", "accountId"} ELSE {"from", "to"})
    ELSE IF startswith(path, "/costs/ondemand/")
    THEN (IF "billingPeriod" \in DOMAIN bag
          THEN Only(bag, {"billingPeriod", "accountId"})
          ELSE Only(bag, {"from", "to", "accountId"}))
    ELSE IF startswith(path, "/invoice/")
    THEN Only(bag, IF Truthy(bag, "accountId") THEN {"billingPeriod", "accountId"}
                   ELSE {"billingPeriod"})
    ELSE IF path = "/usage/ondemand/tags"
    THEN Only(bag, {"beginDate", "endDate"})
    ELSE IF startswith(path, "/usage/ondemand/")
    THEN Only(bag, {"from", "to"})
    ELSE "unsupported"

Supported(path) ==
    path = "/accounts" \/ path \in CostPaths \cup InvoicePaths \cup UsagePaths

\* what session.post can meet: an exception of requests, or a response with
\* its HTTP status and body (no JSON, a bare list, or header/body with a code,
\* a message and a body field)
Outcome(kind, status, json, code, message, body) ==
    [kind |-> kind, status |-> status, json |-> json, code |-> code,
     message |-> message, body |-> body]

\* the billing API answers 401 to a bearer token it does not accept
ApiOutcomes(bearer, valid) ==
    {Outcome("timeout", 0, "none", 0, "", AbsentBody),
     Outcome("connection_error", 0, "none", 0, "", AbsentBody)}
    \cup (IF bearer # valid
          THEN {Outcome("response", 401, "not_json", 0, "", AbsentBody),
                Outcome("response", 401, "dict", 401, "unauthorized", AbsentBody)}
          ELSE {Outcome("response", 200, "list", 0, "", ListBody(<<"charged">>)),
                Outcome("response", 200, "dict", 200, "ok", ListBody(<<>>)),
                Outcome("response", 200, "dict", 200, "ok", ListBody(<<"charged">>)),
                Outcome("response", 200, "dict", 203, "no data", AbsentBody),
                Outcome("response", 200, "dict", 203, "no data", ListBody(<<"charged">>)),
                Outcome("response", 200, "dict", 204, "no data", NullBody),
                Outcome("response", 200, "dict", 500, "internal", AbsentBody)})

\* a projector returned its wrapper: items under key; null when the value
\* under key is None
Wrapped(key, items) ==
    [exc |-> "None", text |-> <<>>, key |-> key, items |-> items, null |-> FALSE]

\* a projector raised exc with message text
Raised(exc, text) ==
    [exc |-> exc, text |-> text, key |-> "None", items |-> <<>>, null |-> FALSE]

\* an error text that names the code and leaves the message out
ApiErrorText_CodeOnly(code, message) ==
    <<"FitCloud API error ">> \o str(code)

\* lines 355, 842 and 909: f"FitCloud API error {code}: {message}"
ApiErrorText(code, message) ==
    <<"FitCloud API error ">> \o str(code) \o <<": ", message>>

\* an item that is not an object has no get
NoGetText == <<"'int' object has no attribute 'get'">>

\* SelectSeq(items, keep) for a set of kept item kinds
Keep(items, kinds) ==
    LET kept(x) == x \in kinds IN SelectSeq(items, kept)

HasScalar(items) == \E i \in DOMAIN items : items[i] = "scalar"

\* process_fitcloud_response lines 304-357
process_fitcloud_response(o, path) ==
    IF o.json = "list"
    THEN Wrapped(IF path = "/accounts" THEN "accounts" ELSE "data", o.body.items)
    ELSE IF o.json = "dict"
    THEN (IF o.code = 200
          THEN (IF startswith(path, "/costs/ondemand/") \/ startswith(path, "/usage/ondemand/")
                THEN (IF HasScalar(o.body.items)
                      THEN (IF o.body.items[1] = "scalar"
                            THEN Raised("TypeError", <<"argument of type 'int' is not iterable">>)
                            ELSE Raised("AttributeError", NoGetText))
                      ELSE Wrapped("cost_items", o.body.items))
                ELSE [Wrapped("data", o.body.items) EXCEPT !.null = (o.body.is = "null")])
          ELSE IF o.code \in {203, 204}
          THEN Wrapped(IF startswith(path, "/costs/ondemand/") THEN "cost_items" ELSE "data",
                       <<>>)
          ELSE Raised("ValueError", ApiErrorText(o.code, o.message)))
    ELSE Raised("ValueError", <<"Invalid response format from FitCloud API">>)

\* process_invoice_response lines 901-938: a bare list has no get; the body
\* is filtered by account_id when one is given, and items without a fee are
\* left out
process_invoice_response(o, account_id) ==
    IF o.json # "dict" THEN Raised("AttributeError", <<"'list' object has no attribute 'get'">>)
    ELSE IF o.code \notin {200, 203, 204}
    THEN Raised("ValueError", ApiErrorText(o.code, o.message))
    ELSE IF HasScalar(o.body.items) THEN Raised("AttributeError", NoGetText)
    ELSE Wrapped("invoice_items",
                 Keep(o.body.items, IF account_id THEN {"charged"} ELSE {"charged", "foreign"}))

\* process_usage_response lines 835-899: items that raise and items without a
\* cost are left out
process_usage_response(o, is_tag) ==
    IF o.json # "dict" THEN Raised("AttributeError", <<"'list' object has no attribute 'get'">>)
    ELSE IF o.code \notin {200, 203, 204}
    THEN Raised("ValueError", ApiErrorText(o.code, o.message))
    ELSE Wrapped(IF is_tag THEN "usage_tag_items" ELSE "usage_items",
                 Keep(o.body.items, {"charged", "foreign"}))

\* lambda_handler lines 1025-1110: response.json() and the projector of the path
Project(o, path, bag) ==
    IF o.json = "not_json" THEN Raised("JSONDecodeError", <<"Expecting value">>)
    ELSE IF path = "/accounts" \/ startswith(path, "/costs/ondemand/")
    THEN process_fitcloud_response(o, path)
    ELSE IF startswith(path, "/invoice/")
    THEN process_invoice_response(o, Truthy(bag, "accountId"))
    ELSE process_usage_response(o, path = "/usage/ondemand/tags")

IsException(x) == x.exc # "None"

\* create_bedrock_response without the error branch of lines 406-411
create_bedrock_response_NoErrorBranch(status_code, response_data, error_message) ==
    [httpStatusCode |-> status_code, success |-> TRUE, error |-> <<>>,
     keys |-> {"success", "message"}, items |-> <<>>]

\* create_bedrock_response lines 404-493: error_message <<>> for None;
\* response_data is a projector's wrapper; keys are those of the body, items
\* the item list the body carries
create_bedrock_response(status_code, response_data, error_message) ==
    IF error_message # <<>>
    THEN [httpStatusCode |-> IF status_code = 200 THEN 400 ELSE status_code,
          success |-> FALSE, error |-> error_message, keys |-> {"error", "success"},
          items |-> <<>>]
    ELSE [httpStatusCode |-> status_code, success |-> TRUE, error |-> <<>>,
          keys |-> {"success", "message"} \cup
                   (CASE response_data.key = "accounts"
                           -> {"accounts", "total_count", "active_count"}
                      [] response_data.key = "cost_items"
                           -> {"cost_type", "scope", "cost_items", "total_cost_usd", "item_count"}
                      [] response_data.key = "data" -> {"data"}
                      [] OTHER -> {}),
          items |-> IF response_data.key \in {"accounts", "cost_items", "data"}
                    THEN response_data.items ELSE <<>>]

\* lines 1116-1120: f"API processing error: {str(e)}" (the prefix is Korean in
\* the source)
ProcessingError(text) == <<"API cheori jung oryu: ">> \o text

\* lambda_handler lines 1017-1120: the envelope returned after the post met o
Respond(o, path, bag) ==
    IF o.kind # "response"
    THEN create_bedrock_response(500, NoWrapper, ProcessingError(<<o.kind>>))
    ELSE LET w == Project(o, path, bag)
         IN  IF IsException(w)
             THEN create_bedrock_response(500, NoWrapper, ProcessingError(w.text))
             ELSE IF w.key = "accounts" /\ HasScalar(w.items)
             THEN create_bedrock_response(500, NoWrapper, ProcessingError(NoGetText))
             ELSE create_bedrock_response(200, w, <<>>)

(***************************************************************************)
(* SpecHandler: invocations of lambda_handler in one process, the secret   *)
(* store and the billing API around it                                     *)
(***************************************************************************)
HandlerClocks ==
    {[y |-> 2025, m |-> 6, d |-> 15], [y |-> 2025, m |-> 12, d |-> 31],
     [y |-> 2028, m |-> 2, d |-> 29]}

EventParameters ==
    {MkBag([from |-> f, to |-> t, billingPeriod |-> b, beginDate |-> be[1],
            endDate |-> be[2], accountId |-> a]) :
        f \in {Absent, Num(230, 4), Num(202505, 6), Num(20250601, 8)},
        t \in {Absent, Num(202506, 6), Num(20250605, 8)},
        b \in {Absent, Num(202501, 6)},
        be \in {<<Absent, Absent>>, <<Num(20250601, 8), Num(20250605, 8)>>},
        a \in AccountIdValues}

EventTexts ==
    {NoText,
     [NoText EXCEPT !.month = <<"5">>],
     [NoText EXCEPT !.month = <<"5">>, !.days = <<<<"1">>, <<"5">>>>],
     [NoText EXCEPT !.invoice = TRUE],
     [NoText EXCEPT !.usage = TRUE],
     [NoText EXCEPT !.usage = TRUE, !.tag = TRUE],
     [NoText EXCEPT !.account = TRUE]}

EventPaths == {"/costs/ondemand/corp/monthly", "/accounts", "/unknown"}

Events ==
    [parameters : EventParameters, apiPath : EventPaths, inputText : EventTexts]

SecretAnswers == {"fail", "binary", "nokey", "empty", "tokA", "tokB"}

Tokens == {"tokA", "tokB"}

InitHandler ==
    /\ SummaryIdle /\ UploadIdle /\ SlackIdle
    /\ clock \in HandlerClocks
    /\ dstage = "input"
    /\ dparams = EmptyBag
    /\ dpath = "None"
    /\ corrected = EmptyBag
    /\ corrected2 = EmptyBag
    /\ warnings = <<>>
    /\ FITCLOUD_API_TOKEN = "None"
    /\ secret \in SecretAnswers
    /\ validToken \in Tokens
    /\ RunIdle
    /\ SupervisorIdle

\* lines 940-999 for event ev under clock clk: parameters extracted and
\* corrected, the endpoint selected, the parameters validated
Prepare(ev, clk) ==
    LET bag == smart_date_correction(extract_parameters(ev, clk), clk)
        sel == SelectEndpoint(bag, ev)
    IN  [clk |-> clk, event |-> ev, params |-> bag, path |-> sel.path, type |-> sel.type,
         date_warnings |-> validate_date_logic(bag, sel.path, clk)]

\* every invocation the handler can receive, with what lines 940-999 make of it
Invocations == {Prepare(ev, clk) : ev \in Events, clk \in HandlerClocks}

\* lambda_handler is invoked and runs up to line 999
Invoke ==
    /\ pc = "idle"
    /\ \E inv \in Invocations :
        /\ inv.clk = clock
        /\ event' = inv.event
        /\ params' = inv.params
        /\ target_api_path' = inv.path
        /\ api_type' = inv.type
        /\ date_warnings' = inv.date_warnings
    /\ pc' = "validated"
    /\ UNCHANGED <<clock, laterVars, dateVars, supervisorVars, processVars, current_token, tokenCalls, secretCalls,
                   requests, apiOutcome, processed_data_wrapper, result>>

\* lambda_handler has returned its envelope; the process stays loaded
Return ==
    /\ pc = "done"
    /\ pc' = "idle"
    /\ event' = NoEvent
    /\ params' = EmptyBag
    /\ target_api_path' = "None"
    /\ api_type' = "None"
    /\ date_warnings' = <<>>
    /\ current_token' = "None"
    /\ tokenCalls' = 0
    /\ secretCalls' = 0
    /\ requests' = <<>>
    /\ apiOutcome' = NoOutcome
    /\ processed_data_wrapper' = NoWrapper
    /\ result' = NoResult
    /\ UNCHANGED <<clock, laterVars, dateVars, supervisorVars, processVars>>

\* the early return of lines 1000-1002 never taken: warnings are only logged
HasWarnings_Ignored(w) == FALSE

\* lines 1000-1002 take the early return exactly when there are warnings
HasWarnings(w) == w # <<>>

\* lines 1000-1002: any warning ends the invocation with a 400 envelope
RejectInvalid ==
    /\ pc = "validated"
    /\ HasWarnings(date_warnings)
    /\ result' = create_bedrock_response(400, NoWrapper, <<"date_parameter_error">>)
    /\ pc' = "done"
    /\ UNCHANGED <<clock, laterVars, dateVars, supervisorVars, processVars, event, params, target_api_path, api_type,
                   date_warnings, current_token, tokenCalls, secretCalls, requests, apiOutcome,
                   processed_data_wrapper>>

\* lines 1004-1014: the token, from the cache or the secret store
GetToken ==
    /\ pc = "validated"
    /\ ~HasWarnings(date_warnings)
    /\ LET r == get_fitcloud_token(FITCLOUD_API_TOKEN, secret)
       IN  /\ FITCLOUD_API_TOKEN' = r.cache
           /\ tokenCalls' = tokenCalls + 1
           /\ secretCalls' = secretCalls + (IF r.fetched THEN 1 ELSE 0)
           /\ IF r.raised
              THEN /\ result' = create_bedrock_response(401, NoWrapper, <<"authentication_failed">>)
                   /\ pc' = "done"
                   /\ UNCHANGED current_token
              ELSE /\ current_token' = r.token
                   /\ pc' = "token_ok"
                   /\ UNCHANGED result
    /\ UNCHANGED <<clock, laterVars, dateVars, supervisorVars, secret, validToken, event, params, target_api_path,
                   api_type, date_warnings, requests, apiOutcome, processed_data_wrapper>>

\* lines 1016-1120: one post to the billing API and the envelope made of what
\* it met; a path no branch handles is answered 404 without a post
CallApi ==
    /\ pc = "token_ok"
    /\ IF Supported(target_api_path)
       THEN \E o \in ApiOutcomes(current_token, validToken) :
                /\ requests' = Append(requests, [path |-> target_api_path,
                                                 data |-> api_data(target_api_path, params),
                                                 bearer |-> current_token,
                                                 answer |-> o])
                /\ apiOutcome' = o
                /\ processed_data_wrapper' =
                       (IF o.kind = "response" THEN Project(o, target_api_path, params)
                        ELSE NoWrapper)
                /\ result' = Respond(o, target_api_path, params)
       ELSE /\ result' = create_bedrock_response(404, NoWrapper, <<"unsupported_api_path">>)
            /\ UNCHANGED <<requests, apiOutcome, processed_data_wrapper>>
    /\ pc' = "done"
    /\ UNCHANGED <<clock, laterVars, dateVars, supervisorVars, processVars, event, params, target_api_path, api_type,
                   date_warnings, current_token, tokenCalls, secretCalls>>

\* between invocations the secret store's answer changes
SecretChanges ==
    /\ pc = "idle"
    /\ \E sec \in SecretAnswers : sec # secret /\ secret' = sec
    /\ UNCHANGED <<clock, laterVars, dateVars, supervisorVars, FITCLOUD_API_TOKEN, validToken, runVars>>

\* between invocations the billing platform replaces the token it accepts
TokenRotates ==
    /\ pc = "idle"
    /\ \E t \in Tokens : t # validToken /\ validToken' = t
    /\ UNCHANGED <<clock, laterVars, dateVars, supervisorVars, FITCLOUD_API_TOKEN, secret, runVars>>

NextHandler ==
    \/ Invoke
    \/ RejectInvalid
    \/ GetToken
    \/ CallApi
    \/ Return
    \/ SecretChanges
    \/ TokenRotates

SpecHandler == InitHandler /\ [][NextHandler]_vars

(***************************************************************************)
(* Claims about lambda_handler                                             *)
(***************************************************************************)
Running == pc \in {"validated", "token_ok", "done"}

AccountCostPaths == {"/costs/ondemand/account/monthly", "/costs/ondemand/account/daily"}

DailyPaths ==
    {"/costs/ondemand/corp/daily", "/costs/ondemand/account/daily", "/usage/ondemand/daily"}

MonthlyPaths ==
    {"/costs/ondemand/corp/monthly", "/costs/ondemand/account/monthly",
     "/usage/ondemand/monthly"}

\* C4: every request posted on a /costs/ondemand/ path carries from and to
\* with their normalized values, and accountId on the account-scoped paths.
C4_CostRequestCarriesRequired ==
    \A i \in 1..Len(requests) :
        LET r == requests[i]
        IN  r.path \in CostPaths =>
                /\ {"from", "to"} \subseteq DOMAIN r.data
                /\ {"from", "to"} \subseteq DOMAIN params
                /\ r.data["from"] = params["from"]
                /\ r.data["to"] = params["to"]
                /\ r.path \in AccountCostPaths =>
                        /\ "accountId" \in DOMAIN r.data
                        /\ "accountId" \in DOMAIN params
                        /\ r.data["accountId"] = params["accountId"]

\* C5: for a cost query, a bag that holds billingPeriod is routed to the
\* monthly cost endpoint (account-scoped when accountId is present, else
\* corp-scoped), whatever the width of from.
C5_BillingPeriodRoutesMonthly ==
    (/\ Running
     /\ api_type \in {"costs_daily", "costs_monthly"}
     /\ "billingPeriod" \in DOMAIN params)
    => target_api_path = (IF "accountId" \in DOMAIN params
                          THEN "/costs/ondemand/account/monthly"
                          ELSE "/costs/ondemand/corp/monthly")

\* C6: for a cost or usage query without billingPeriod the width of from
\* selects the endpoint: 8 daily, 6 monthly, anything else (or no from) daily.
C6_FromWidthSelectsEndpoint ==
    (/\ Running
     /\ api_type \in {"costs_daily", "costs_monthly", "usage_daily", "usage_monthly"}
     /\ "billingPeriod" \notin DOMAIN params)
    => LET width == IF "from" \in DOMAIN params THEN Len(params["from"]) ELSE 0
       IN  IF width = 6 THEN target_api_path \in MonthlyPaths
           ELSE target_api_path \in DailyPaths

\* get_fitcloud_token raised in this invocation
TokenFailed == pc = "done" /\ tokenCalls = 1 /\ current_token = "None"

\* C7: the status of the envelope names the kind of failure: 400 bad
\* parameters, 401 authentication, 404 unsupported path, 503 connection error,
\* 504 timeout, and 500 for nothing but an unexpected error.
C7_StatusNamesFailureKind ==
    pc = "done" =>
        /\ date_warnings # <<>> => result.httpStatusCode = 400
        /\ TokenFailed => result.httpStatusCode = 401
        /\ (date_warnings = <<>> /\ ~TokenFailed /\ ~Supported(event.apiPath))
              => result.httpStatusCode = 404
        /\ apiOutcome.kind = "connection_error" => result.httpStatusCode = 503
        /\ apiOutcome.kind = "timeout" => result.httpStatusCode = 504
        /\ result.httpStatusCode = 500 => apiOutcome.kind = "response"

\* C8: when the billing API answered 401, the cached token was dropped, the
\* secret store was asked again once and the request was posted a second time.
C8_RetryOnceAfter401 ==
    (/\ pc = "done"
     /\ Len(requests) >= 1
     /\ requests[1].answer.kind = "response"
     /\ requests[1].answer.status = 401)
    => /\ Len(requests) = 2
       /\ FITCLOUD_API_TOKEN # requests[1].bearer

\* C10: in an invocation whose validation returned warnings, neither
\* get_fitcloud_token nor the secret store nor the billing API is called, and
\* the envelope returned is an error with status 400.
C10_ValidationBeforeNetwork ==
    (Running /\ date_warnings # <<>>)
    => /\ tokenCalls = 0
       /\ secretCalls = 0
       /\ requests = <<>>
       /\ pc = "done" => /\ result.httpStatusCode = 400
                         /\ ~result.success
                         /\ result.error # <<>>

\* an invocation that returned on warnings
C10_Witness ==
    /\ pc = "done"
    /\ date_warnings # <<>>
    /\ result.httpStatusCode = 400

(***************************************************************************)
(* fitcloudSuperVisor.py: texts                                            *)
(*                                                                         *)
(* A plain text is a sequence of the fragments the code looks for: "nl"    *)
(* (white space and line break), "cost" (cost figures), "star" (an         *)
(* asterisk), "mdbar" (an asterisk followed by eight or more bars), "aws"  *)
(* (the asterisk-calendar-AWS title), "resp" ([RESPONSE][message]), "end"  *)
(* (END RequestId), "report" (REPORT).  A text whose json field is         *)
(* "output" is a JSON document holding toks at                             *)
(* output.message.content[0].text; "other" is any other JSON document.     *)
(* Texts stay well under the 2000 characters of lines 367 and 373.         *)
(***************************************************************************)
RECURSIVE lstrip(_)
lstrip(t) == IF t # <<>> /\ Head(t) = "nl" THEN lstrip(Tail(t)) ELSE t

RECURSIVE rstrip(_)
rstrip(t) == IF t # <<>> /\ t[Len(t)] = "nl" THEN rstrip(SubSeq(t, 1, Len(t) - 1)) ELSE t

\* str.strip()
strip(t) == rstrip(lstrip(t))

\* the index of the leftmost fragment of t that is in S, 0 when there is none
search(t, S) ==
    IF \E i \in 1..Len(t) : t[i] \in S
    THEN CHOOSE i \in 1..Len(t) : t[i] \in S /\ \A j \in 1..(i - 1) : t[j] \notin S
    ELSE 0

\* group 1 of (<start>.*?)(?:END RequestId|$) for a match starting at i
UntilEnd(t, i) ==
    LET rest == SubSeq(t, i, Len(t))
        e == search(rest, {"end"})
    IN  IF e = 0 THEN rest ELSE SubSeq(rest, 1, e - 1)

\* str.split('\n')
RECURSIVE split(_)
split(t) ==
    LET i == search(t, {"nl"})
    IN  IF i = 0 THEN <<t>>
        ELSE <<SubSeq(t, 1, i - 1)>> \o split(SubSeq(t, i + 1, Len(t)))

\* lines 354-359: the stripped lines that are not empty, END RequestId or REPORT
RECURSIVE meaningful_lines(_)
meaningful_lines(lines) ==
    IF lines = <<>> THEN <<>>
    ELSE LET line == strip(Head(lines))
         IN  (IF line # <<>> /\ Head(line) \notin {"end", "report"} THEN <<line>> ELSE <<>>)
             \o meaningful_lines(Tail(lines))

\* '\n'.join(lines)
RECURSIVE join(_)
join(lines) ==
    IF lines = <<>> THEN <<>>
    ELSE IF Len(lines) = 1 THEN Head(lines)
    ELSE Head(lines) \o <<"nl">> \o join(Tail(lines))

Plain(t) == [json |-> "no", toks |-> t]

\* not raw_response or not raw_response.strip()
IsBlankText(raw) == raw.json = "no" /\ strip(raw.toks) = <<>>

\* lines 324-369: the raw text is not JSON
extract_from_plain(t) ==
    IF search(t, {"resp"}) # 0
    THEN strip(SubSeq(t, search(t, {"resp"}) + 1, Len(t)))
    ELSE IF search(t, {"mdbar"}) # 0
    THEN strip(UntilEnd(t, search(t, {"mdbar"})))
    ELSE IF search(t, {"aws"}) # 0
    THEN strip(UntilEnd(t, search(t, {"aws"})))
    ELSE IF search(t, {"star", "mdbar", "aws"}) # 0
    THEN strip(UntilEnd(t, search(t, {"star", "mdbar", "aws"})))
    ELSE IF meaningful_lines(split(t)) # <<>>
    THEN join(meaningful_lines(split(t)))
    ELSE strip(t)

extract_markdown_from_agent1(raw) ==
    IF IsBlankText(raw) THEN Plain(<<"no_agent1_response_note">>)
    ELSE IF raw.json = "output" THEN Plain(strip(raw.toks))
    ELSE IF raw.json = "other" THEN raw
    ELSE Plain(extract_from_plain(raw.toks))

(***************************************************************************)
(* fitcloudSuperVisor.lambda_handler                                       *)
(*                                                                         *)
(* A user text is a sequence of words; None is Absent and '' is <<>>.      *)
(* The reply is the sequence of the pieces its text is made of: a fixed    *)
(* note of the supervisor, a text taken from Agent1, or the message        *)
(* Agent2 answered with.                                                   *)
(***************************************************************************)
\* lines 19-37
extract_user_input(ev) ==
    IF ev.user_input # Absent THEN ev.user_input
    ELSE IF ev.parameters.kind = "dict" THEN ev.parameters.user_input
    ELSE IF ev.requestBody.kind = "content" THEN ev.requestBody.user_input
    ELSE ev.inputText

\* line 58, the Korean keywords romanized
report_keywords ==
    {"bogoseo", "ripoteu", "eksel", "chateu", "geuraepeu", "PDF", "pail", "cheombu",
     "daunrodeu", "eomnodeu", "seullaek", "mandeureo", "saengseong", "jejak"}

\* str.lower()
lower(t) == [i \in DOMAIN t |-> IF t[i] = "PDF" THEN "pdf" ELSE t[i]]

\* line 60
IsReportRequest(t) == \E i \in DOMAIN t : lower(t)[i] \in report_keywords

\* lines 98-104 and 164-170: response.body.content[0].text of a payload, else ''
content_text(answer) == IF answer.shape = "content_text" THEN answer.text ELSE EmptyText

Note(id) == <<[kind |-> "note", id |-> id, body |-> EmptyText]>>

Agent1Piece(t) == <<[kind |-> "agent1", id |-> "text", body |-> t]>>

Agent2Piece(t) == <<[kind |-> "agent2", id |-> "text", body |-> t]>>

\* lines 140-151
Agent2Payload(text, raw) ==
    [sent |-> TRUE, inputText |-> Plain(<<"make_report_prefix", "nl">> \o text.toks),
     agent1_response |-> text, agent1_raw_response |-> raw]

(***************************************************************************)
(* SpecSupervisor                                                          *)
(***************************************************************************)
MaxTextLen == 3

SvFragments == {"nl", "cost", "star", "mdbar", "aws", "resp", "end", "report"}

Agent1Texts ==
    {Plain(t) : t \in UNION {[1..n -> SvFragments] : n \in 0..MaxTextLen}}
    \cup {[json |-> "output", toks |-> t] : t \in {<<>>, <<"cost">>, <<"nl", "cost", "nl">>}}
    \cup {[json |-> "other", toks |-> <<"cost">>]}

\* what the invocation of Agent1 meets: an exception, a function-error
\* payload, the action-group envelope of create_bedrock_response (its text
\* is the message of response.responseBody's body), or an envelope with
\* response.body.content
Agent1Answers ==
    {[shape |-> sh, text |-> EmptyText] :
        sh \in {"raise", "function_error", "content_empty", "content_no_text"}}
    \cup {[shape |-> "action_envelope", text |-> t] : t \in {EmptyText, Plain(<<"cost">>)}}
    \cup {[shape |-> "content_text", text |-> t] : t \in Agent1Texts}

\* the messages of fitcloudagent2_lambda.lambda_handler
Agent2Failures ==
    {Plain(<<m>>) : m \in {"agent1_no_data", "agent1_call_error", "no_data_found",
                           "agent2_processing_error"}}

Agent2Texts == Agent2Failures \cup {Plain(<<"report_completed">>), EmptyText}

Agent2Answers ==
    {[shape |-> sh, text |-> EmptyText] :
        sh \in {"raise", "function_error", "content_empty", "content_no_text"}}
    \cup {[shape |-> "content_text", text |-> t] : t \in Agent2Texts}

UserTexts == {<<>>, <<"cost">>, <<"cost", "bogoseo">>, <<"cost", "PDF">>}

SvEvents ==
    [user_input : {Absent} \cup UserTexts,
     parameters : {[kind |-> "absent", user_input |-> Absent],
                   [kind |-> "dict", user_input |-> Absent],
                   [kind |-> "dict", user_input |-> <<"cost", "bogoseo">>]},
     requestBody : {[kind |-> "absent", user_input |-> Absent],
                    [kind |-> "content", user_input |-> <<"cost">>]},
     inputText : {Absent, <<"cost">>, <<"cost", "ripoteu">>}]

InitSupervisor ==
    /\ SummaryIdle /\ UploadIdle /\ SlackIdle
    /\ clock = [y |-> 2025, m |-> 6, d |-> 15]
    /\ dstage = "input"
    /\ dparams = EmptyBag
    /\ dpath = "None"
    /\ corrected = EmptyBag
    /\ corrected2 = EmptyBag
    /\ warnings = <<>>
    /\ HandlerIdle
    /\ SupervisorIdle

\* lines 16-91 and 224-247: user_input extracted, the request classified,
\* Agent1 invoked
SvReceive ==
    /\ spc = "idle"
    /\ \E ev \in SvEvents :
        LET u == extract_user_input(ev)
        IN  /\ sv_event' = ev
            /\ user_input' = u
            /\ IF u = Absent \/ u = <<>>
               THEN /\ reply' = Note("user_input_required")
                    /\ spc' = "done"
                    /\ UNCHANGED <<is_report_request, agent1_payload>>
               ELSE /\ is_report_request' = IsReportRequest(u)
                    /\ agent1_payload' = u
                    /\ spc' = "agent1_called"
                    /\ UNCHANGED reply
    /\ UNCHANGED <<clock, laterVars, dateVars, handlerVars, agent1_answer, raw_agent1_response,
                   agent1_result_text, agent2_payload, agent2_answer, agent2_result>>

\* lines 93-157 (report chain) and 249-301 (plain query): the answer of
\* Agent1 is read; the plain query returns, the report chain invokes Agent2
SvAgent1Returns ==
    /\ spc = "agent1_called"
    /\ \E answer \in Agent1Answers :
        LET raw == content_text(answer)
            text == extract_markdown_from_agent1(raw)
        IN  /\ agent1_answer' = answer
            /\ IF answer.shape = "raise"
               THEN /\ reply' = Note(IF is_report_request THEN "report_error"
                                     ELSE "cost_query_error")
                    /\ spc' = "done"
                    /\ UNCHANGED <<raw_agent1_response, agent1_result_text, agent2_payload>>
               ELSE IF ~is_report_request
               THEN /\ raw_agent1_response' = raw
                    /\ agent1_result_text' = text
                    /\ reply' = Agent1Piece(text)
                    /\ spc' = "done"
                    /\ UNCHANGED agent2_payload
               ELSE IF IsBlankText(raw)
               THEN /\ raw_agent1_response' = raw
                    /\ reply' = Note("agent1_no_data")
                    /\ spc' = "done"
                    /\ UNCHANGED <<agent1_result_text, agent2_payload>>
               ELSE /\ raw_agent1_response' = raw
                    /\ agent1_result_text' = text
                    /\ agent2_payload' = Agent2Payload(text, raw)
                    /\ spc' = "agent2_called"
                    /\ UNCHANGED reply
    /\ UNCHANGED <<clock, laterVars, dateVars, handlerVars, sv_event, user_input, is_report_request,
                   agent1_payload, agent2_answer, agent2_result>>

\* lines 160-203: the answer of Agent2 is read and the chain returns
SvAgent2Returns ==
    /\ spc = "agent2_called"
    /\ \E answer \in Agent2Answers :
        /\ agent2_answer' = answer
        /\ IF answer.shape = "raise"
           THEN /\ reply' = Note("agent2_call_error")
                /\ UNCHANGED agent2_result
           ELSE IF content_text(answer) = EmptyText
           THEN /\ agent2_result' = "no_valid_agent2_response"
                /\ reply' = Note("no_valid_agent2_response")
           ELSE /\ agent2_result' = "agent2_text"
                /\ reply' = Agent2Piece(content_text(answer))
    /\ spc' = "done"
    /\ UNCHANGED <<clock, laterVars, dateVars, handlerVars, sv_event, user_input, is_report_request,
                   agent1_payload, agent1_answer, raw_agent1_response, agent1_result_text,
                   agent2_payload>>

\* the supervisor invocation is over; the next one starts afresh
SvReturn ==
    /\ spc = "done"
    /\ spc' = "idle"
    /\ sv_event' = NoSvEvent
    /\ user_input' = Absent
    /\ is_report_request' = FALSE
    /\ agent1_payload' = Absent
    /\ agent1_answer' = NoAnswer
    /\ raw_agent1_response' = EmptyText
    /\ agent1_result_text' = EmptyText
    /\ agent2_payload' = NoPayload
    /\ agent2_answer' = NoAnswer
    /\ agent2_result' = "None"
    /\ reply' = <<>>
    /\ UNCHANGED <<clock, laterVars, dateVars, handlerVars>>

NextSupervisor == SvReceive \/ SvAgent1Returns \/ SvAgent2Returns \/ SvReturn

SpecSupervisor == InitSupervisor /\ [][NextSupervisor]_vars

(***************************************************************************)
(* Claims about the supervisor                                             *)
(***************************************************************************)
\* the report chain obtained cost data from Agent1 and handed it to Agent2
Agent1ReturnedData ==
    /\ is_report_request
    /\ agent2_payload.sent
    /\ \E i \in DOMAIN agent1_result_text.toks : agent1_result_text.toks[i] = "cost"

\* the report step failed: the invocation raised, or Agent2 answered with an
\* error message or with no text
Agent2Failed ==
    \/ agent2_answer.shape = "raise"
    \/ agent2_answer.shape \in {"function_error", "content_empty", "content_no_text"}
    \/ agent2_answer.shape = "content_text"
       /\ agent2_answer.text \in Agent2Failures \cup {EmptyText}

\* C9: when the report chain has obtained cost data and the report step
\* fails, the reply holds the cost-query result and, apart from it, a note
\* about the failure.
C9_ReportFailureKeepsCostData ==
    (spc = "done" /\ Agent1ReturnedData /\ Agent2Failed)
    => \E i, j \in DOMAIN reply :
           /\ reply[i].kind = "agent1"
           /\ reply[i].body = agent1_result_text
           /\ reply[j].kind \in {"note", "agent2"}

(***************************************************************************)
(* SpecValues: smart_date_correction and validate_date_logic applied to    *)
(* one from/to value or pair at a time, over the shapes of lines 70-104    *)
(* and the dates around each clock                                         *)
(***************************************************************************)
ValueClocks ==
    {[y |-> 2025, m |-> 6, d |-> 1], [y |-> 2025, m |-> 6, d |-> 15],
     [y |-> 2025, m |-> 6, d |-> 30], [y |-> 2025, m |-> 12, d |-> 31],
     [y |-> 2026, m |-> 1, d |-> 1], [y |-> 2026, m |-> 3, d |-> 1],
     [y |-> 2027, m |-> 2, d |-> 28], [y |-> 2028, m |-> 2, d |-> 29]}

\* one or two characters
MonthValues ==
    {<<DigitChars[i]>> : i \in DOMAIN DigitChars} \cup {<<"x">>} \cup {Num(n, 2) : n \in 0..13} \cup {Num(99, 2)}
    \cup {<<"x", "x">>, <<"5", "x">>, <<"x", "5">>}

\* four characters
MMDDValues ==
    {Num(mm, 2) \o Num(dd, 2) : mm \in 0..13, dd \in {0, 1, 28, 29, 30, 31, 32}}
    \cup {<<"0", "6", "x", "3">>, <<"x", "6", "0", "3">>}

StaleYears == {2019, 2020, 2021, 2022, 2023, 2025}

\* six and eight characters
YearValues ==
    {Num(yy, 4) \o sfx : yy \in StaleYears,
                        sfx \in {Num(0, 2), Num(1, 2), Num(2, 2), Num(12, 2), Num(13, 2),
                                 <<"0", "x">>,
                                 Num(228, 4), Num(229, 4), Num(230, 4), Num(630, 4),
                                 Num(631, 4), Num(1301, 4), Num(100, 4),
                                 <<"0", "1", "x", "1">>}}
    \cup {<<"2", "0", "2", "x", "0", "5">>, <<"x", "0", "2", "0", "0", "5", "0", "1">>}

\* three, five, seven and nine characters
OddValues ==
    {Num(123, 3), <<"1", "x", "3">>, Num(12345, 5), Num(1234567, 7), Num(123456789, 9)}

SingleValues == MonthValues \cup MMDDValues \cup YearValues \cup OddValues

\* days around the clocks
PairDays ==
    {Num(n, 8) : n \in {20241231, 20250531, 20250601, 20250614, 20250615, 20250616,
                        20250630, 20250701, 20251231, 20260101, 20260228, 20260301,
                        20260302, 20270228, 20270301, 20280228, 20280229, 20280301}}

\* months around the clocks
PairMonths ==
    {Num(n, 6) : n \in {202412, 202501, 202505, 202506, 202507, 202512, 202601, 202602,
                        202603, 202604, 202702, 202703, 202802, 202803}}

ValueBags ==
    {MkBag([from |-> v, to |-> Absent]) : v \in SingleValues}
    \cup {MkBag([from |-> Absent, to |-> v]) : v \in SingleValues}
    \cup {MkBag([from |-> v, to |-> v]) : v \in SingleValues}
    \cup {MkBag([from |-> f, to |-> t]) : f \in PairDays, t \in PairDays}
    \cup {MkBag([from |-> f, to |-> t]) : f \in PairMonths, t \in PairMonths}

InitValues ==
    /\ SummaryIdle /\ UploadIdle /\ SlackIdle
    /\ clock \in ValueClocks
    /\ dstage = "input"
    /\ dparams \in ValueBags
    /\ dpath = "None"
    /\ corrected = EmptyBag
    /\ corrected2 = EmptyBag
    /\ warnings = <<>>
    /\ HandlerIdle
    /\ SupervisorIdle

\* validate_date_logic(params) on the bag as given, with no endpoint path
ValidateInput ==
    /\ dstage = "input"
    /\ warnings' = validate_date_logic(dparams, dpath, clock)
    /\ dstage' = "checked"
    /\ UNCHANGED <<clock, laterVars, dparams, dpath, corrected, corrected2, handlerVars, supervisorVars>>

NextValues == Correct \/ ValidateInput

SpecValues == InitValues /\ [][NextValues]_vars

\* the decimal numeral of a month 1..12 in one or two digits
IsMonthNumeral(v) == Len(v) \in {1, 2} /\ isdigit(v) /\ IntVal(v) \in 1..12

\* v is the 6-digit numeral of year y and month m
IsYearMonth(v, y, m) ==
    /\ Len(v) = 6 /\ isdigit(v)
    /\ IntVal(Prefix(v, 4)) = y
    /\ IntVal(Suffix(v, 4)) = m

\* C11: a from that is the 1- or 2-digit numeral of a month 1..12 comes back
\* as the clock's year followed by the month in two digits.
C11_BareMonthGetsYear ==
    (/\ dstage = "corrected"
     /\ "from" \in DOMAIN dparams
     /\ IsMonthNumeral(dparams["from"]))
    => /\ "from" \in DOMAIN corrected
       /\ IsYearMonth(corrected["from"], clock.y, IntVal(dparams["from"]))

\* the one-digit month "5" normalized
C11_Witness ==
    /\ dstage = "corrected"
    /\ "from" \in DOMAIN dparams
    /\ dparams["from"] = <<"5">>
    /\ corrected["from"] = Num(clock.y, 4) \o <<"0", "5">>

\* the from/to keys of the bag handed to smart_date_correction
GivenKeys == {"from", "to"} \cap DOMAIN dparams

\* C12: a 4-digit from/to value is rewritten to the clock's year followed by
\* the value exactly when that 8-digit string is a real calendar date (0229
\* only in a leap clock year); otherwise it comes back unchanged.
C12_MMDDGetsYearIfRealDate ==
    dstage = "corrected" =>
        \A k \in GivenKeys :
            (Len(dparams[k]) = 4 /\ isdigit(dparams[k]))
            => corrected[k] = (IF RealDate(Num(clock.y, 4) \o dparams[k])
                               THEN Num(clock.y, 4) \o dparams[k]
                               ELSE dparams[k])

\* 0229 rewritten in the leap clock year 2028
C12_Witness ==
    /\ dstage = "corrected"
    /\ clock.y = 2028
    /\ "from" \in DOMAIN dparams
    /\ dparams["from"] = Num(229, 4)
    /\ corrected["from"] = Num(20280229, 8)

\* C13: a from/to value that is not an all-digit string of length 1, 2, 4, 6
\* or 8 comes back from smart_date_correction unmodified.
C13_OtherShapesUnchanged ==
    dstage = "corrected" =>
        \A k \in GivenKeys :
            ~(isdigit(dparams[k]) /\ Len(dparams[k]) \in {1, 2, 4, 6, 8})
            => corrected[k] = dparams[k]

\* the value with its first four characters replaced by the clock's year
WithClockYear(v) == Num(clock.y, 4) \o Suffix(v, 4)

CountTag(w, tag) == Cardinality({i \in DOMAIN w : w[i] = tag})

\* the clock's date as the number YYYYMMDD
Today == clock.y * 10000 + clock.m * 100 + clock.d

\* C15: for two valid 8-digit dates and no endpoint path, validate_date_logic
\* returns no warning when from <= to and neither is after the clock's date,
\* one ordering warning exactly when from > to, and a future-date warning
\* exactly when one of them is after the clock's date.
C15_DailyPairWarnings ==
    (/\ dstage = "checked"
     /\ {"from", "to"} \subseteq DOMAIN dparams
     /\ RealDate(dparams["from"])
     /\ RealDate(dparams["to"]))
    => LET f == IntVal(dparams["from"])
           t == IntVal(dparams["to"])
       IN  /\ (f <= t /\ f <= Today /\ t <= Today) => warnings = <<>>
           /\ CountTag(warnings, "from_after_to") = (IF f > t THEN 1 ELSE 0)
           /\ CountTag(warnings, "future_date") = (IF f > Today \/ t > Today THEN 1 ELSE 0)

\* from the day after the clock's date, to the clock's date: both warnings
C15_Witness ==
    /\ dstage = "checked"
    /\ {"from", "to"} \subseteq DOMAIN dparams
    /\ RealDate(dparams["from"])
    /\ IntVal(dparams["to"]) = Today
    /\ IntVal(dparams["from"]) > Today
    /\ warnings = <<"from_after_to", "future_date">>

\* the month after the clock's, across the year's end
NextMonth == IF clock.m = 12 THEN [y |-> clock.y + 1, m |-> 1] ELSE [y |-> clock.y, m |-> clock.m + 1]

\* C16: for two 6-digit months, validate_date_logic emits no future warning
\* when both are the clock's (year, month), whatever the day, and emits one
\* when either is the month after the clock's, December to January included.
C16_MonthlyFutureWarning ==
    (/\ dstage = "checked"
     /\ {"from", "to"} \subseteq DOMAIN dparams
     /\ RealMonth(dparams["from"])
     /\ RealMonth(dparams["to"]))
    => LET f == dparams["from"]
           t == dparams["to"]
       IN  /\ (IsYearMonth(f, clock.y, clock.m) /\ IsYearMonth(t, clock.y, clock.m))
              => CountTag(warnings, "future_month") = 0
           /\ (IsYearMonth(f, NextMonth.y, NextMonth.m) \/ IsYearMonth(t, NextMonth.y, NextMonth.m))
              => CountTag(warnings, "future_month") = 1

\* on 31 December, a range ending in January of the next year
C16_Witness ==
    /\ dstage = "checked"
    /\ clock.m = 12
    /\ {"from", "to"} \subseteq DOMAIN dparams
    /\ IsYearMonth(dparams["from"], clock.y, 12)
    /\ IsYearMonth(dparams["to"], clock.y + 1, 1)
    /\ warnings = <<"future_month">>

(***************************************************************************)
(* Claims about the route lambda_handler takes                             *)
(***************************************************************************)
\* an event with no parameters, no month, day range or keyword in its text,
\* and an apiPath other than /accounts
NoSignal(ev) ==
    /\ ev.parameters = EmptyBag
    /\ ev.inputText = NoText
    /\ ev.apiPath # "/accounts"

\* the clock's date as YYYYMMDD
TodayStr == Num(clock.y, 4) \o Num(clock.m, 2) \o Num(clock.d, 2)

\* C17: for an event without date parameters, month mention, account or
\* invoice/usage signal, under every clock, the bag is normalized to
\* from = to = the clock's date, validation yields no warning, the endpoint is
\* the corp-scoped daily cost endpoint and every request goes to it.
C17_DefaultIsTodayCorpDaily ==
    (Running /\ NoSignal(event))
    => /\ {"from", "to"} \subseteq DOMAIN params
       /\ params["from"] = TodayStr
       /\ params["to"] = TodayStr
       /\ date_warnings = <<>>
       /\ target_api_path = "/costs/ondemand/corp/daily"
       /\ \A i \in DOMAIN requests :
              /\ requests[i].path = "/costs/ondemand/corp/daily"
              /\ requests[i].data = [from |-> TodayStr, to |-> TodayStr]

\* such an event answered on 31 December after one request
C17_Witness ==
    /\ pc = "done"
    /\ NoSignal(event)
    /\ clock.m = 12
    /\ Len(requests) = 1
    /\ requests[1].path = "/costs/ondemand/corp/daily"
    /\ result.success

\* C18: whenever the normalized bag holds both beginDate and endDate the
\* endpoint is /usage/ondemand/tags, whatever the event's apiPath, keywords,
\* from/to, billingPeriod and accountId.
C18_BeginEndSelectsTags ==
    (Running /\ {"beginDate", "endDate"} \subseteq DOMAIN params)
    => /\ target_api_path = "/usage/ondemand/tags"
       /\ api_type = "usage_tag"

\* beginDate and endDate together with apiPath /accounts and a billingPeriod
C18_Witness ==
    /\ Running
    /\ {"beginDate", "endDate", "billingPeriod", "accountId"} \subseteq DOMAIN params
    /\ event.apiPath = "/accounts"
    /\ target_api_path = "/usage/ondemand/tags"

(***************************************************************************)
(* SpecProject: the projectors applied to a parsed billing response, and   *)
(* the envelope lambda_handler makes of the response                       *)
(***************************************************************************)
MaxItems == 2

ItemKinds == {"charged", "free", "foreign", "scalar"}

ProjectCodes == {200, 203, 204, 401, 500}

ProjectMessages == {"", "internal"}

ProjectBodies ==
    {AbsentBody, NullBody}
    \cup {ListBody(items) : items \in UNION {[1..n -> ItemKinds] : n \in 0..MaxItems}}

ProjectResponses ==
    {Outcome("response", 200, "dict", c, m, b) :
        c \in ProjectCodes, m \in ProjectMessages, b \in ProjectBodies}
    \cup {Outcome("response", 200, "list", 0, "", b) :
            b \in {x \in ProjectBodies : x.is = "list"}}
    \cup {Outcome("response", 200, "not_json", 0, "", AbsentBody)}

ProjectPaths == {"/accounts"} \cup CostPaths \cup InvoicePaths \cup UsagePaths

ProjectParams == {EmptyBag, MkBag([accountId |-> Num(123456, 6) \o Num(789012, 6)])}

Projectors ==
    {"process_fitcloud_response", "process_invoice_response", "process_usage_response"}

\* session.post has returned the response apiOutcome for target_api_path
InitProject ==
    /\ SummaryIdle /\ UploadIdle /\ SlackIdle
    /\ clock = [y |-> 2025, m |-> 6, d |-> 15]
    /\ dstage = "input"
    /\ dparams = EmptyBag
    /\ dpath = "None"
    /\ corrected = EmptyBag
    /\ corrected2 = EmptyBag
    /\ warnings = <<>>
    /\ FITCLOUD_API_TOKEN = "None"
    /\ secret = "fail"
    /\ validToken = "tokA"
    /\ pc = "posted"
    /\ event = NoEvent
    /\ params \in ProjectParams
    /\ target_api_path \in ProjectPaths
    /\ api_type = "None"
    /\ date_warnings = <<>>
    /\ current_token = "None"
    /\ tokenCalls = 0
    /\ secretCalls = 0
    /\ requests = <<>>
    /\ apiOutcome \in ProjectResponses
    /\ processed_data_wrapper = NoWrapper
    /\ result = NoResult
    /\ SupervisorIdle

\* process_fitcloud_response(raw_data, api_path)
ApplyFitcloud ==
    /\ pc = "posted"
    /\ apiOutcome.json # "not_json"
    /\ processed_data_wrapper' = process_fitcloud_response(apiOutcome, target_api_path)
    /\ pc' = "process_fitcloud_response"
    /\ UNCHANGED <<clock, laterVars, dateVars, supervisorVars, processVars, event, params, target_api_path,
                   api_type, date_warnings, current_token, tokenCalls, secretCalls, requests,
                   apiOutcome, result>>

\* process_invoice_response(raw_data, billing_period, account_id)
ApplyInvoice ==
    /\ pc = "posted"
    /\ apiOutcome.json # "not_json"
    /\ processed_data_wrapper' =
           process_invoice_response(apiOutcome, Truthy(params, "accountId"))
    /\ pc' = "process_invoice_response"
    /\ UNCHANGED <<clock, laterVars, dateVars, supervisorVars, processVars, event, params, target_api_path,
                   api_type, date_warnings, current_token, tokenCalls, secretCalls, requests,
                   apiOutcome, result>>

\* process_usage_response(raw_data, from_period, to_period, is_tag=...)
ApplyUsage ==
    /\ pc = "posted"
    /\ apiOutcome.json # "not_json"
    /\ \E is_tag \in BOOLEAN :
           /\ processed_data_wrapper' = process_usage_response(apiOutcome, is_tag)
           /\ api_type' = IF is_tag THEN "usage_tag" ELSE "usage"
    /\ pc' = "process_usage_response"
    /\ UNCHANGED <<clock, laterVars, dateVars, supervisorVars, processVars, event, params, target_api_path,
                   date_warnings, current_token, tokenCalls, secretCalls, requests,
                   apiOutcome, result>>

\* lambda_handler lines 1017-1120 from response.json() on
HandlerResponds ==
    /\ pc = "posted"
    /\ processed_data_wrapper' = Project(apiOutcome, target_api_path, params)
    /\ result' = Respond(apiOutcome, target_api_path, params)
    /\ pc' = "done"
    /\ UNCHANGED <<clock, laterVars, dateVars, supervisorVars, processVars, event, params, target_api_path,
                   api_type, date_warnings, current_token, tokenCalls, secretCalls, requests,
                   apiOutcome>>

NextProject ==
    \/ ApplyFitcloud
    \/ ApplyInvoice
    \/ ApplyUsage
    \/ HandlerResponds

SpecProject == InitProject /\ [][NextProject]_vars

\* a header/body response with header.code in codes
HeaderCodeIn(codes) == apiOutcome.json = "dict" /\ apiOutcome.code \in codes

\* a projector, or the handler's choice of projector, has run
Projected == pc \in Projectors \cup {"done"}

\* C19: a header/body response with header.code 203 or 204 is projected to a
\* successful result with an empty item list, never to an error, by each
\* projector, for every path and whatever the body field is.
C19_NoDataIsEmptySuccess ==
    (Projected /\ HeaderCodeIn({203, 204}))
    => /\ ~IsException(processed_data_wrapper)
       /\ processed_data_wrapper.items = <<>>

\* sub occurs in t as a run of consecutive fragments
Contains(t, sub) ==
    \E i \in 1..(Len(t) - Len(sub) + 1) : SubSeq(t, i, i + Len(sub) - 1) = sub

\* "<code>: <message>" of the response
CodeAndMessage == str(apiOutcome.code) \o <<": ", apiOutcome.message>>

\* C20: a header/body response with header.code other than 200, 203 and 204
\* makes every projector raise an error whose text carries "<code>: <message>";
\* no projector returns a result, and the handler returns an error envelope
\* with success false that carries the same text.
C20_OtherCodeIsError ==
    (Projected /\ HeaderCodeIn(ProjectCodes \ {200, 203, 204}))
    => /\ processed_data_wrapper.exc = "ValueError"
       /\ Contains(processed_data_wrapper.text, CodeAndMessage)
       /\ pc = "done" => /\ ~result.success
                         /\ result.httpStatusCode = 500
                         /\ Contains(result.error, CodeAndMessage)

\* the handler has answered {"header": {"code": 500, "message": "internal"}}
C20_Witness ==
    /\ pc = "done"
    /\ HeaderCodeIn({500})
    /\ apiOutcome.message = "internal"
    /\ result.error = <<"API cheori jung oryu: ", "FitCloud API error ", "5", "0", "0", ": ",
                        "internal">>

(***************************************************************************)
(* Claims about the envelope and the token cache                           *)
(***************************************************************************)
ItemKeys == {"invoice_items", "usage_items", "usage_tag_items"}

\* C25: for a code-200 invoice or usage response with at least one non-zero
\* row, the body of the envelope lambda_handler returns holds the projected
\* item list under invoice_items, usage_items or usage_tag_items.
C25_EnvelopeCarriesItems ==
    (/\ pc = "done"
     /\ HeaderCodeIn({200})
     /\ ~IsException(processed_data_wrapper)
     /\ processed_data_wrapper.key \in ItemKeys
     /\ processed_data_wrapper.items # <<>>)
    => /\ processed_data_wrapper.key \in result.keys
       /\ result.items = processed_data_wrapper.items

\* C28: every call of get_fitcloud_token that returns normally returns a
\* non-empty token, and a call that failed leaves the cache empty (None), so
\* that the next call asks the secret store again.
C28_TokenNonEmptyOrRefetched ==
    /\ pc = "token_ok" => current_token \notin {"", "None"}
    /\ TokenFailed => FITCLOUD_API_TOKEN = "None"

\* C29: for every envelope lambda_handler returns, the status is 200 exactly
\* when the body has success true and no error field; with an error message
\* the body is exactly {error, success: false} and the status is not 200.
C29_EnvelopeStatusMatchesBody ==
    pc = "done"
    => /\ result.httpStatusCode = 200 <=> (result.success /\ "error" \notin result.keys)
       /\ result.error # <<>> => /\ result.keys = {"error", "success"}
                                 /\ ~result.success
                                 /\ result.httpStatusCode # 200
       /\ result.error = <<>> => result.success

\* an error envelope returned after the billing API answered code 500, and
\* before it a process that can also return success
C29_Witness ==
    /\ pc = "done"
    /\ apiOutcome.json = "dict"
    /\ apiOutcome.code = 500
    /\ result.httpStatusCode = 500
    /\ result.keys = {"error", "success"}

(***************************************************************************)
(* Claims about the supervisor reading the cost agent's envelope           *)
(***************************************************************************)
\* Agent1 answered with the envelope of create_bedrock_response, its message
\* not empty
Agent1Succeeded ==
    /\ agent1_answer.shape = "action_envelope"
    /\ agent1_answer.text # EmptyText

\* C27: whenever Agent1 returns the envelope of create_bedrock_response with
\* a non-empty message, the supervisor extracts that message: the reply of a
\* plain query carries it, a report request has Agent2 invoked with it, and
\* the supervisor never answers that Agent1 gave no data.
C27_SupervisorReadsAgent1Envelope ==
    (spc \in {"agent2_called", "done"} /\ Agent1Succeeded)
    => /\ agent1_result_text = agent1_answer.text
       /\ (~is_report_request /\ spc = "done") => reply = Agent1Piece(agent1_answer.text)
       /\ is_report_request => /\ agent2_payload.sent
                               /\ agent2_payload.agent1_response = agent1_answer.text
       /\ reply # Note("agent1_no_data")

(***************************************************************************)
(* Rows, amounts and the summary functions                                 *)
(*                                                                         *)
(* An amount is an integer number of thousandths of a dollar. The value    *)
(* of a row's field is a number, a string that float() parses, a string    *)
(* it does not parse, null, or missing (no such key). Services, tags and   *)
(* dates are numbered; 0 is the default name of a missing key.             *)
(***************************************************************************)
Val(n) == [t |-> "num", n |-> n]
StrVal(n) == [t |-> "str", n |-> n]
Junk == [t |-> "junk", n |-> 0]
Null == [t |-> "null", n |-> 0]
Missing == [t |-> "missing", n |-> 0]

\* a row of a billing response body
RawRow(service, fee, cost, date) ==
    [service |-> service, usageFee |-> fee, onDemandCost |-> cost, usageFeeUSD |-> Missing,
     date |-> date, tag |-> 0]

\* safe_float lines 495-499: float(val), 0.0 when float raises
safe_float(v) == IF v.t \in {"num", "str"} THEN v.n ELSE 0

\* item.get(key, 0.0): the default for a missing key only
GetOrZero(v) == IF v.t = "missing" THEN Val(0) ELSE v

\* round(x, 2) of an amount, ties to the even cent
Round2(n) ==
    LET q == n \div 10
        r == n % 10
    IN  10 * (IF r > 5 \/ (r = 5 /\ q % 2 = 1) THEN q + 1 ELSE q)

RECURSIVE SumOf(_)
SumOf(ns) == IF ns = <<>> THEN 0 ELSE Head(ns) + SumOf(Tail(ns))

Abs(n) == IF n < 0 THEN -n ELSE n

\* lines 914-927: the invoice rows with a non-zero fee, the fee rounded
invoice_items(body) ==
    LET kept(row) == safe_float(row.usageFee) # 0
        rows == SelectSeq(body, kept)
    IN  [i \in DOMAIN rows |->
            [service |-> rows[i].service, usageFee |-> Missing, onDemandCost |-> Missing,
             usageFeeUSD |-> Val(Round2(safe_float(rows[i].usageFee))),
             date |-> 0, tag |-> 0]]

\* lines 913-937: total_invoice_fee_usd, the sum of the fees added, rounded
total_invoice_fee_usd(body) ==
    Round2(SumOf([i \in DOMAIN body |-> safe_float(body[i].usageFee)]))

\* lines 844-875: the usage rows with a non-zero cost
usage_items(body) ==
    LET kept(row) == safe_float(row.onDemandCost) # 0
        rows == SelectSeq(body, kept)
    IN  [i \in DOMAIN rows |->
            [service |-> rows[i].service, usageFee |-> Missing,
             onDemandCost |-> Val(safe_float(rows[i].onDemandCost)),
             usageFeeUSD |-> Missing, date |-> rows[i].date, tag |-> rows[i].tag]]

\* lines 845-898: total_on_demand_cost, rounded
total_on_demand_cost(body) ==
    Round2(SumOf([i \in DOMAIN body |-> safe_float(body[i].onDemandCost)]))

\* create_bedrock_response lines 433-467: the cost items of the envelope and
\* their total; float(item.get('usageFee', 0.0)) skips a row it cannot convert
envelope_cost_items(items) ==
    LET ok(row) == GetOrZero(row.usageFee).t \in {"num", "str"}
    IN  SelectSeq(items, ok)

total_cost_usd(items) ==
    LET rows == envelope_cost_items(items)
    IN  Round2(SumOf([i \in DOMAIN rows |-> GetOrZero(rows[i].usageFee).n]))

\* item.get('usageFeeUSD', item.get('onDemandCost', 0.0)) of lines 581, 601, 605, 673
SummaryValue(row) ==
    IF row.usageFeeUSD.t # "missing" THEN row.usageFeeUSD ELSE GetOrZero(row.onDemandCost)

\* the names of the groups of rows in the order a defaultdict meets them
RECURSIVE GroupNames(_)
GroupNames(names) ==
    IF names = <<>> THEN <<>>
    ELSE LET rest == GroupNames(SubSeq(names, 1, Len(names) - 1))
             last == names[Len(names)]
         IN  IF \E i \in DOMAIN rest : rest[i] = last THEN rest ELSE Append(rest, last)

\* service_sum.items(): [name, val] per group, val the sum of the rows' values
GroupSums(rows, name(_), val(_)) ==
    LET names == GroupNames([i \in DOMAIN rows |-> name(rows[i])])
    IN  [g \in DOMAIN names |->
            [name |-> names[g],
             val |-> SumOf([i \in DOMAIN rows |->
                              IF name(rows[i]) = names[g] THEN val(rows[i]) ELSE 0])]]

\* sorted(groups, key=abs, reverse=True)[:n]: the sort is stable
RECURSIVE TopN(_, _)
TopN(groups, n) ==
    IF n = 0 \/ groups = <<>> THEN <<>>
    ELSE LET best == CHOOSE i \in DOMAIN groups :
                        /\ \A j \in DOMAIN groups : Abs(groups[j].val) <= Abs(groups[i].val)
                        /\ \A j \in 1..(i - 1) : Abs(groups[j].val) < Abs(groups[i].val)
             rest == [k \in 1..(Len(groups) - 1) |->
                        IF k < best THEN groups[k] ELSE groups[k + 1]]
         IN  <<groups[best]>> \o TopN(rest, n - 1)

\* val / total * 100 if total else 0, as the fraction n / d
Percent(val, total) ==
    IF total = 0 THEN [n |-> 0, d |-> 1] ELSE [n |-> val * 100, d |-> total]

NoOther == [shown |-> FALSE, val |-> 0, percent |-> [n |-> 0, d |-> 1]]

\* a rendered summary: one table per title (the month, or each day), each
\* with its rows [name, val, percent], its "other" row and its total
Rendered(tables) == [exc |-> "None", tables |-> tables]

\* a summary function raised exc
Failed(exc) == [exc |-> exc, tables |-> <<>>]

\* the table of groups with total: the top n rows and the "other" row of
\* lines 587-598, 607-623, 647-651 and 679-686; exc is "ZeroDivisionError"
\* when the "other" row divides by a zero total
SummaryTable(title, groups, total, n) ==
    LET top == TopN(groups, n)
        etc == total - SumOf([i \in DOMAIN top |-> top[i].val])
    IN  [exc |-> IF etc > 0 /\ total = 0 THEN "ZeroDivisionError" ELSE "None",
              title |-> title,
              rows |-> [i \in DOMAIN top |->
                          [name |-> top[i].name, val |-> top[i].val,
                           percent |-> Percent(top[i].val, total)]],
              other |-> IF etc > 0
                        THEN [shown |-> TRUE, val |-> etc, percent |-> Percent(etc, total)]
                        ELSE NoOther,
              total |-> total]

ServiceOf(row) == row.service
TagOf(row) == row.tag
DateOf(row) == row.date
AmountOf(row) == SummaryValue(row).n

\* the rows' values can be added: none is a string or null
Addable(rows) == \A i \in DOMAIN rows : SummaryValue(rows[i]).t = "num"

\* the dates of rows in ascending order, each once
RECURSIVE SortedDates(_)
SortedDates(ds) ==
    IF ds = {} THEN <<>>
    ELSE LET least == CHOOSE d \in ds : \A e \in ds : d <= e
         IN  <<least>> \o SortedDates(ds \ {least})

\* summarize_cost_items_table lines 568-624
summarize_cost_items_table(cost_items, is_daily) ==
    IF cost_items = <<>> THEN Rendered(<<>>)
    ELSE IF ~Addable(cost_items) THEN Failed("TypeError")
    ELSE IF is_daily
    THEN LET dates == SortedDates({cost_items[i].date : i \in DOMAIN cost_items})
             of(d) == LET on(row) == row.date = d IN SelectSeq(cost_items, on)
             tables == [k \in DOMAIN dates |->
                          SummaryTable(dates[k],
                                       GroupSums(of(dates[k]), ServiceOf, AmountOf),
                                       SumOf([i \in DOMAIN of(dates[k]) |->
                                                AmountOf(of(dates[k])[i])]), 8)]
         IN  IF \E k \in DOMAIN tables : tables[k].exc # "None"
             THEN Failed("ZeroDivisionError")
             ELSE Rendered(tables)
    ELSE LET total == SumOf([i \in DOMAIN cost_items |-> AmountOf(cost_items[i])])
             table == SummaryTable(0, GroupSums(cost_items, ServiceOf, AmountOf), total, 10)
         IN  IF table.exc # "None" THEN Failed("ZeroDivisionError")
             ELSE Rendered(<<table>>)

\* summarize_invoice_items lines 626-657: line 654 divides the first row by
\* the total
summarize_invoice_items(invoice_items_) ==
    IF invoice_items_ = <<>> THEN Rendered(<<>>)
    ELSE LET fee(row) == row.usageFeeUSD.n
             total == SumOf([i \in DOMAIN invoice_items_ |-> fee(invoice_items_[i])])
             table == SummaryTable(0, GroupSums(invoice_items_, ServiceOf, fee), total, 8)
         IN  IF total = 0 \/ table.exc # "None" THEN Failed("ZeroDivisionError")
             ELSE Rendered(<<table>>)

\* summarize_tag_items_table lines 659-687
summarize_tag_items_table(tag_items) ==
    IF tag_items = <<>> THEN Rendered(<<>>)
    ELSE IF ~Addable(tag_items) THEN Failed("TypeError")
    ELSE LET total == SumOf([i \in DOMAIN tag_items |-> AmountOf(tag_items[i])])
             table == SummaryTable(0, GroupSums(tag_items, TagOf, AmountOf), total, 10)
         IN  IF table.exc # "None" THEN Failed("ZeroDivisionError")
             ELSE Rendered(<<table>>)

(***************************************************************************)
(* SpecSummary: a code-200 response body goes through the cost branch of   *)
(* process_fitcloud_response and the envelope, through                     *)
(* process_invoice_response, or through process_usage_response.            *)
(***************************************************************************)
MaxRows == 2

\* the values a row's amount field takes
FeeValues == {Missing, Val(0), Val(1000), Val(-1000), Val(4), Junk}
CostValues == {Missing, Val(1000), Val(-1000), StrVal(2000)}

RowSet == {RawRow(sv, fee, cost, 0) : sv \in 1..2, fee \in FeeValues, cost \in CostValues}

\* n rows of n services: the first n - 1 charge `big`, the last charges `last`
Spread(n, big, last, date) ==
    [i \in 1..n |-> RawRow(i, Val(IF i < n THEN big ELSE last),
                           Val(IF i < n THEN big ELSE last), date)]

\* n credits followed by n charges of the same size, 2n services
Balanced(n, date) ==
    [i \in 1..(2 * n) |-> RawRow(i, Val(IF i <= n THEN -2000 ELSE 2000),
                                 Val(IF i <= n THEN -2000 ELSE 2000), date)]

SummaryInputs ==
    UNION {[1..n -> RowSet] : n \in 0..MaxRows}
    \cup {Spread(n, big, last, date) :
            n \in {2, 9, 11}, big \in {2000, -2000}, last \in {1000, -1000},
            date \in {0, 20250601}}
    \cup {Balanced(n, date) : n \in {1, 8}, date \in {0, 20250601}}

InitSummary ==
    /\ clock = [y |-> 2025, m |-> 6, d |-> 15]
    /\ DatesIdle /\ HandlerIdle /\ SupervisorIdle /\ UploadIdle /\ SlackIdle
    /\ sstage = "input"
    /\ cost_rows \in SummaryInputs
    /\ applied = "none"
    /\ summary = Rendered(<<>>)
    /\ items_out = <<>>
    /\ total_out = 0

\* what a function that returns [summary, items, total] leaves: nothing but
\* the exception when the summary raised
Returned(name, sm, items, total) ==
    /\ sstage' = "done"
    /\ applied' = name
    /\ summary' = sm
    /\ items_out' = IF sm.exc = "None" THEN items ELSE <<>>
    /\ total_out' = IF sm.exc = "None" THEN total ELSE 0
    /\ UNCHANGED <<clock, dateVars, handlerVars, supervisorVars, uploadVars, slackVars,
                   cost_rows>>

\* process_fitcloud_response lines 321-344 on a cost path, then
\* create_bedrock_response lines 433-467
RespondCost ==
    /\ sstage = "input"
    /\ LET is_daily == cost_rows # <<>> /\ cost_rows[1].date # 0
       IN  Returned("cost", summarize_cost_items_table(cost_rows, is_daily),
                    envelope_cost_items(cost_rows), total_cost_usd(cost_rows))

\* process_invoice_response lines 901-938
RespondInvoice ==
    /\ sstage = "input"
    /\ Returned("invoice", summarize_invoice_items(invoice_items(cost_rows)),
                invoice_items(cost_rows), total_invoice_fee_usd(cost_rows))

\* process_usage_response lines 835-899, called at lines 1098 and 1109
RespondUsage ==
    /\ sstage = "input"
    /\ \E is_daily \in BOOLEAN :
         Returned(IF is_daily THEN "usage_daily" ELSE "usage",
                  summarize_cost_items_table(usage_items(cost_rows), is_daily),
                  usage_items(cost_rows), total_on_demand_cost(cost_rows))

\* process_usage_response with is_tag=True, called at line 1084
RespondTags ==
    /\ sstage = "input"
    /\ Returned("tags", summarize_tag_items_table(usage_items(cost_rows)),
                usage_items(cost_rows), total_on_demand_cost(cost_rows))

NextSummary == RespondCost \/ RespondInvoice \/ RespondUsage \/ RespondTags

SpecSummary == InitSummary /\ [][NextSummary]_vars

\* the list the summary function of the applied path was given
SummaryInput ==
    CASE applied = "cost" -> cost_rows
      [] applied = "invoice" -> invoice_items(cost_rows)
      [] OTHER -> usage_items(cost_rows)

\* every row carries a usageFee that is a number
FeesAreNumbers == \A i \in DOMAIN cost_rows : cost_rows[i].usageFee.t = "num"

\* the sum of the usageFee values of the rows of one service
FeeOfService(name) ==
    SumOf([i \in DOMAIN cost_rows |->
             IF cost_rows[i].service = name THEN cost_rows[i].usageFee.n ELSE 0])

\* C21: for a code-200 cost response whose rows all carry a numeric usageFee,
\* the total and the per-service amounts of the summary message are the sums
\* of the rows' usageFee values, and the summary's total agrees with the
\* envelope's total_cost_usd.
C21_SummaryReadsUsageFee ==
    (/\ sstage = "done" /\ applied = "cost"
     /\ cost_rows # <<>> /\ cost_rows[1].date = 0
     /\ FeesAreNumbers
     /\ summary.exc = "None")
    => \A k \in DOMAIN summary.tables :
         /\ Round2(summary.tables[k].total) = total_out
         /\ \A r \in DOMAIN summary.tables[k].rows :
              summary.tables[k].rows[r].val = FeeOfService(summary.tables[k].rows[r].name)

\* the amounts of the rows a table shows, the "other" row included
ShownSum(table) ==
    SumOf([r \in DOMAIN table.rows |-> table.rows[r].val])
    + (IF table.other.shown THEN table.other.val ELSE 0)

\* C22: in every rendered summary, each table with a non-zero total shows
\* rows (the top groups and the "other" row when shown) whose amounts sum
\* to the reported total, so that their percentages sum to 100%.
C22_ShownRowsSumToTotal ==
    (sstage = "done" /\ summary.exc = "None")
    => \A k \in DOMAIN summary.tables :
         summary.tables[k].total # 0 => ShownSum(summary.tables[k]) = summary.tables[k].total

\* the amounts of the summary function's input add up to exactly zero
SumsToZero ==
    /\ SummaryInput # <<>>
    /\ Addable(SummaryInput)
    /\ SumOf([i \in DOMAIN SummaryInput |-> AmountOf(SummaryInput[i])]) = 0

\* C23: a summary function given a non-empty list whose amounts sum to
\* exactly 0 returns a rendered summary (no division error), and every
\* percentage in it is 0%.
C23_ZeroTotalRendersZeroPercent ==
    (sstage = "done" /\ (applied = "usage_daily" => cost_rows[1].date # 0) /\ SumsToZero)
    => /\ summary.exc = "None"
       /\ \A k \in DOMAIN summary.tables :
            /\ \A r \in DOMAIN summary.tables[k].rows :
                 summary.tables[k].rows[r].percent.n = 0
            /\ summary.tables[k].other.percent.n = 0

\* the amount field the projection of the applied path reads
ProjectedField(row) == IF applied = "invoice" THEN row.usageFee ELSE row.onDemandCost

\* the rows whose amount parses as a number other than 0, in input order
NonZeroRows ==
    LET kept(row) == ProjectedField(row).t \in {"num", "str"} /\ ProjectedField(row).n # 0
    IN  SelectSeq(cost_rows, kept)

\* C24: the invoice and usage projections return the rows whose amount
\* parses as a non-zero number (negative amounts included) in input order,
\* and report the sum of those rows' amounts as the total.
C24_ProjectionKeepsNonZeroRows ==
    (sstage = "done" /\ applied \in {"invoice", "usage", "usage_daily", "tags"})
    => /\ summary.exc = "None"
       /\ [i \in DOMAIN items_out |-> items_out[i].service]
            = [i \in DOMAIN NonZeroRows |-> NonZeroRows[i].service]
       /\ total_out = Round2(SumOf([i \in DOMAIN NonZeroRows |->
                                      ProjectedField(NonZeroRows[i]).n]))

(***************************************************************************)
(* SpecUpload: the Slack upload of generate_excel_report (the report       *)
(* agent), lines 355-435. Each request is recorded with the answer it met. *)
(***************************************************************************)
\* what a request meets: a requests exception, a body that is not JSON, a
\* JSON body, or (for the file post) a bare HTTP status
Answer(kind, ok, error, url, fid, permalink) ==
    [kind |-> kind, ok |-> ok, error |-> error, upload_url |-> url, file_id |-> fid,
     permalink |-> permalink]

NetworkFailures ==
    {Answer(kind, FALSE, "", "", "", "") : kind \in {"Timeout", "ConnectionError", "not_json"}}

\* the answers of files.getUploadURLExternal; "" is a missing key
GetUploadURLAnswers ==
    NetworkFailures
    \cup {Answer("json", FALSE, e, "", "", "") : e \in {"invalid_auth", "ratelimited"}}
    \cup {Answer("json", TRUE, "", url, fid, "") :
            url \in {"", "https://files.slack.com/upload/v1/A", "https://files.slack.com/upload/v1/B"},
            fid \in {"", "F1", "F2", "F3"}}

\* the answers of the post to upload_url: upload_file_response.ok is status < 400
UploadFileAnswers ==
    {Answer(kind, FALSE, "", "", "", "") : kind \in {"Timeout", "ConnectionError"}}
    \cup {Answer("http", ok, "", "", "", "") : ok \in BOOLEAN}

\* the answers of files.completeUploadExternal
CompleteUploadAnswers ==
    NetworkFailures
    \cup {Answer("json", FALSE, e, "", "", "") :
            e \in {"not_in_channel", "channel_not_found", "invalid_auth"}}
    \cup {Answer("json", TRUE, "", "", "", link) : link \in {"", "https://slack.com/files/1"}}

ReportTitles ==
    {"ripoteu", "seobiseubyeol yogeum ripoteu", "wolbyeol yogeum ripoteu",
     "ilbyeol yogeum ripoteu", "gyejeongbyeol yogeum ripoteu", "taegeubyeol yogeum ripoteu",
     "ilban ripoteu"}

\* a recorded request: the API called, what it was sent to or about, its answer
Call(api, url, fid, answer) == [api |-> api, url |-> url, file_id |-> fid, answer |-> answer]

\* the mutation of StepAnswersOk: any answer lets the upload go on
StepAnswersOk_Always(answer) == TRUE

\* get_upload_url_result.get('ok'), upload_file_response.ok,
\* complete_upload_result.get('ok'): the request returned and answered ok
StepAnswersOk(answer) == answer.kind \in {"json", "http"} /\ answer.ok

\* raise Exception(...) of lines 372, 386, 409-414 and 434-436
UploadRaised(step) ==
    [status |-> "raised", step |-> step, file_id |-> "", permalink |-> "", report_title |-> ""]

InitUpload ==
    /\ clock = [y |-> 2025, m |-> 6, d |-> 15]
    /\ DatesIdle /\ HandlerIdle /\ SupervisorIdle /\ SummaryIdle /\ SlackIdle
    /\ upc = "start"
    /\ ws_title \in ReportTitles
    /\ upload_calls = <<>>
    /\ upload_url = ""
    /\ file_id = ""
    /\ upload_result = [status |-> "none", step |-> 0, file_id |-> "", permalink |-> "",
                        report_title |-> ""]

\* lines 356-376: step 1, the upload URL and the file id
GetUploadURL ==
    /\ upc = "start"
    /\ \E answer \in GetUploadURLAnswers :
         /\ upload_calls' = Append(upload_calls,
                                   Call("files.getUploadURLExternal", "", "", answer))
         /\ IF StepAnswersOk(answer) /\ answer.upload_url # "" /\ answer.file_id # ""
            THEN /\ upload_url' = answer.upload_url
                 /\ file_id' = answer.file_id
                 /\ upc' = "url_ok"
                 /\ UNCHANGED upload_result
            ELSE /\ upload_result' = UploadRaised(1)
                 /\ upc' = "done"
                 /\ UNCHANGED <<upload_url, file_id>>
    /\ UNCHANGED <<clock, dateVars, handlerVars, supervisorVars, summaryVars, slackVars, ws_title>>

\* lines 378-389: step 2, the file's bytes posted to upload_url
UploadFile ==
    /\ upc = "url_ok"
    /\ \E answer \in UploadFileAnswers :
         /\ upload_calls' = Append(upload_calls, Call("upload", upload_url, "", answer))
         /\ IF StepAnswersOk(answer)
            THEN upc' = "posted" /\ UNCHANGED upload_result
            ELSE upc' = "done" /\ upload_result' = UploadRaised(2)
    /\ UNCHANGED <<clock, dateVars, handlerVars, supervisorVars, summaryVars, slackVars, ws_title,
                   upload_url, file_id>>

\* lines 391-430: step 3, the upload completed and shared, and the result
CompleteUpload ==
    /\ upc = "posted"
    /\ \E answer \in CompleteUploadAnswers :
         /\ upload_calls' = Append(upload_calls,
                                   Call("files.completeUploadExternal", "", file_id, answer))
         /\ upload_result' =
              IF StepAnswersOk(answer)
              THEN [status |-> "success", step |-> 3, file_id |-> file_id,
                    permalink |-> answer.permalink, report_title |-> ws_title]
              ELSE UploadRaised(3)
    /\ upc' = "done"
    /\ UNCHANGED <<clock, dateVars, handlerVars, supervisorVars, summaryVars, slackVars, ws_title,
                   upload_url, file_id>>

NextUpload == GetUploadURL \/ UploadFile \/ CompleteUpload

SpecUpload == InitUpload /\ [][NextUpload]_vars

\* the i-th request of the upload was made, to api, and its answer was ok
AnsweredOk(i, api) ==
    /\ Len(upload_calls) >= i
    /\ upload_calls[i].api = api
    /\ upload_calls[i].answer.kind \in {"json", "http"}
    /\ upload_calls[i].answer.ok

\* C26: the upload is an ordered three-step handshake. The file is posted
\* only after files.getUploadURLExternal answered ok, and to the URL it
\* gave; files.completeUploadExternal is called only after the file post
\* succeeded, with the file id of step one; success is returned only after
\* the finalize step answered ok; and a step that fails is the last request
\* made and makes generate_excel_report raise.
C26_UploadIsOrderedHandshake ==
    /\ Len(upload_calls) <= 3
    /\ Len(upload_calls) >= 1 => upload_calls[1].api = "files.getUploadURLExternal"
    /\ Len(upload_calls) >= 2 =>
         /\ AnsweredOk(1, "files.getUploadURLExternal")
         /\ upload_calls[2].api = "upload"
         /\ upload_calls[2].url = upload_calls[1].answer.upload_url
    /\ Len(upload_calls) >= 3 =>
         /\ AnsweredOk(2, "upload")
         /\ upload_calls[3].api = "files.completeUploadExternal"
         /\ upload_calls[3].file_id = upload_calls[1].answer.file_id
    /\ upload_result.status = "success" =>
         /\ AnsweredOk(3, "files.completeUploadExternal")
         /\ upload_result.file_id = upload_calls[1].answer.file_id
    /\ \A i \in DOMAIN upload_calls :
         ~AnsweredOk(i, upload_calls[i].api) =>
            /\ i = Len(upload_calls)
            /\ upc = "done"
            /\ upload_result.status = "raised"
            /\ upload_result.step = i

\* all three steps answered ok and the upload returned success
C26_Witness ==
    /\ upc = "done"
    /\ upload_result.status = "success"
    /\ Len(upload_calls) = 3
    /\ upload_calls[3].file_id = "F2"

(***************************************************************************)
(* SpecSlack: the Slack webhook, slackwebhook.py. One invocation of        *)
(* lambda_handler on a request, in a process whose secret cache is cold    *)
(* or warm. A signature is the triple it was computed from.                *)
(***************************************************************************)
\* 60 * 5 of line 57, in seconds
TimestampTolerance == 60 * 5

\* time.time() of the invocation
Now == 1000

\* json.loads(SecretString), or the call raised
Secrets(signing, token) ==
    [is |-> "dict", slackSigningSecret |-> signing, slackBotToken |-> token]
NoSecrets == [is |-> "None", slackSigningSecret |-> "", slackBotToken |-> ""]
SecretsError == [is |-> "error", slackSigningSecret |-> "", slackBotToken |-> ""]

SecretStores ==
    {SecretsError, Secrets("s3cr3t", "xoxb"), Secrets("", "xoxb"), Secrets("s3cr3t", "")}

\* 'v0=' + hmac(secret, "v0:{timestamp}:{body}"): equal signatures come from
\* equal secrets, timestamps and bodies
SigOf(signing, timestamp, body) ==
    [present |-> TRUE, secret |-> signing, timestamp |-> timestamp, body |-> body]
NoSig == [present |-> FALSE, secret |-> "", timestamp |-> Missing, body |-> <<>>]

\* the x-slack-request-timestamp header: digits, other text, or no header
Timestamps ==
    {Val(Now - TimestampTolerance - 1), Val(Now - TimestampTolerance),
     Val(Now + TimestampTolerance + 1), Junk, Missing}

\* event.text as tokens: None, or mentions of the bot and words
NoneText == <<"None">>
Texts == {NoneText, <<"<@UBOT>">>, <<"<@UBOT>", "cost">>}

\* the 'event' of an event callback
SlackEvents ==
    [type : {"message", "app_mention"}, bot_id : {"", "B1"}, subtype : {"", "bot_message"},
     user : {"U1", "USLACKBOT"}, app_id : {"", "A1"}, client_msg_id : BOOLEAN,
     text : Texts]

\* the request body: empty, not JSON, a JSON number, a URL-verification
\* challenge, a JSON object without 'event', or an event callback
Body(kind, ev, authed) == [kind |-> kind, event |-> ev, authed_users |-> authed]
NoSlackEvent ==
    [type |-> "", bot_id |-> "", subtype |-> "", user |-> "", app_id |-> "",
     client_msg_id |-> FALSE, text |-> NoneText]
SlackBodies ==
    {Body(kind, NoSlackEvent, <<>>) :
        kind \in {"empty", "not_json", "scalar", "challenge", "no_event"}}
    \cup {Body("event", ev, authed) : ev \in SlackEvents, authed \in {<<>>, <<"UBOT">>}}

\* the body an attacker signed, or a body changed after signing
TamperedBody == Body("tampered", NoSlackEvent, <<>>)

\* the API Gateway event. lower: the header names arrive in lower case, as
\* the handler reads them; all of a request's headers share the casing
SlackRequest(lc, retry, ct, ts, sig, body) ==
    [lower |-> lc, retry |-> retry, content_type |-> ct, timestamp |-> ts,
     signature |-> sig, body |-> body]

\* a user's message and a bot's message
UserEvent ==
    [type |-> "message", bot_id |-> "", subtype |-> "", user |-> "U1", app_id |-> "",
     client_msg_id |-> TRUE, text |-> <<"<@UBOT>", "cost">>]
BotEvent == [UserEvent EXCEPT !.bot_id = "B1", !.subtype = "bot_message"]

\* every header combination on a few bodies, and every body under the
\* headers of a request Slack signed (a first delivery or a retry)
SlackRequests ==
    UNION {{SlackRequest(lc, retry, ct, ts, sig, body) :
              lc \in BOOLEAN, retry \in BOOLEAN,
              ct \in {"application/json", "application/x-www-form-urlencoded"},
              sig \in {NoSig, SigOf("s3cr3t", ts, body), SigOf("guess", ts, body),
                       SigOf("s3cr3t", ts, TamperedBody)}} :
           ts \in Timestamps,
           body \in {b \in SlackBodies : b.kind # "event"}
                    \cup {Body("event", UserEvent, <<"UBOT">>),
                          Body("event", BotEvent, <<"UBOT">>)}}
    \cup UNION {{SlackRequest(TRUE, retry, "application/json", ts, SigOf("s3cr3t", ts, body),
                              body) : retry \in BOOLEAN} :
                ts \in {Val(Now - TimestampTolerance), Val(Now - TimestampTolerance - 1)},
                body \in SlackBodies}

\* headers.get(name): the handler looks names up in lower case
HasHeaders == slack_request.lower

\* line 117: headers.get('content-type', '').lower()
content_type == IF HasHeaders THEN slack_request.content_type ELSE ""

\* get_slack_secrets lines 23-36: the cache, or the store's answer
get_slack_secrets == IF cached_secrets.is # "None" THEN cached_secrets ELSE secret_store

\* the cache after get_slack_secrets: set when the store answered
CacheAfterGet ==
    IF cached_secrets.is = "None" /\ secret_store.is = "dict" THEN secret_store
    ELSE cached_secrets

\* the mutation of FreshTimestamp: any timestamp of digits passes
FreshTimestamp_AnyAge(ts) == ts.t = "num"

\* line 57: abs(time.time() - int(slack_timestamp)) <= 60 * 5; int raises on
\* text that is not digits
FreshTimestamp(ts) == ts.t = "num" /\ Abs(slack_now - ts.n) <= TimestampTolerance

\* verify_slack_request lines 39-79
verify_slack_request ==
    LET slack_secrets == get_slack_secrets
        slack_signature == IF HasHeaders THEN slack_request.signature ELSE NoSig
        slack_timestamp == IF HasHeaders THEN slack_request.timestamp ELSE Missing
    IN  /\ slack_secrets.is = "dict"
        /\ slack_secrets.slackSigningSecret # ""
        /\ slack_signature.present
        /\ slack_timestamp.t # "missing"
        /\ FreshTimestamp(slack_timestamp)
        /\ SigOf(slack_secrets.slackSigningSecret, slack_timestamp, slack_request.body)
             = slack_signature

Response(code, body) == [statusCode |-> code, body |-> body]

InitSlack ==
    /\ clock = [y |-> 2025, m |-> 6, d |-> 15]
    /\ DatesIdle /\ HandlerIdle /\ SupervisorIdle /\ SummaryIdle /\ UploadIdle
    /\ wpc = "received"
    /\ slack_request \in SlackRequests
    /\ slack_now = Now
    /\ secret_store \in SecretStores
    /\ cached_secrets \in {NoSecrets}
                          \cup (IF secret_store \in {SecretsError, Secrets("s3cr3t", "xoxb")}
                                THEN {Secrets("s3cr3t", "xoxb")} ELSE {})
    /\ verified = "unset"
    /\ agent_calls = <<>>
    /\ slack_posts = <<>>
    /\ slack_response = Response(0, "")

SlackReturn(response) ==
    /\ wpc' = "done"
    /\ slack_response' = response

\* lines 116-140: the retry header, the body parsed, the challenge answered
Filter ==
    /\ wpc = "received"
    /\ IF HasHeaders /\ slack_request.retry
       THEN SlackReturn(Response(200, "OK"))
       ELSE IF content_type = "application/json" /\ slack_request.body.kind = "challenge"
       THEN SlackReturn(Response(200, "challenge"))
       ELSE IF content_type = "application/json" /\ slack_request.body.kind = "scalar"
       THEN SlackReturn(Response(500, "TypeError"))
       ELSE wpc' = "parsed" /\ UNCHANGED slack_response
    /\ UNCHANGED <<clock, dateVars, handlerVars, supervisorVars, summaryVars, uploadVars,
                   slack_request, slack_now, cached_secrets, secret_store, verified, agent_calls,
                   slack_posts>>

\* lines 143-145: the signature verified, or 403
Verify ==
    /\ wpc = "parsed"
    /\ cached_secrets' = CacheAfterGet
    /\ IF verify_slack_request
       THEN verified' = "true" /\ wpc' = "verified" /\ UNCHANGED slack_response
       ELSE verified' = "false" /\ SlackReturn(Response(403, "Forbidden"))
    /\ UNCHANGED <<clock, dateVars, handlerVars, supervisorVars, summaryVars, uploadVars,
                   slack_request, slack_now, secret_store, agent_calls, slack_posts>>

\* lines 158-163: the event is a bot's, the app's own, Slackbot's, or not a
\* user's message
Ignored(ev) ==
    \/ ev.bot_id # ""
    \/ ev.subtype = "bot_message"
    \/ (ev.type = "message" /\ ev.app_id = "A1")
    \/ ev.user = "USLACKBOT"
    \/ (ev.type = "message" /\ ~ev.client_msg_id)

\* lines 172-179: the text without the mention of the bot, stripped
text_for_agent(body) ==
    LET mention(tok) == tok # "<@UBOT>"
    IN  IF body.event.type = "app_mention" /\ body.authed_users # <<>>
        THEN SelectSeq(body.event.text, mention)
        ELSE body.event.text

\* send_slack_message lines 82-110: posts when the bot token is there
Posting(message) ==
    IF get_slack_secrets.slackBotToken # ""
    THEN Append(slack_posts, [channel |-> "C1", message |-> message])
    ELSE slack_posts

\* lines 148-184: the event filtered, the greeting sent for an empty text
Dispatch ==
    /\ wpc = "verified"
    /\ LET body == slack_request.body
       IN  IF content_type # "application/json" \/ body.kind # "event" \/ Ignored(body.event)
           THEN SlackReturn(Response(200, "OK")) /\ UNCHANGED slack_posts
           ELSE IF body.event.text = NoneText
                   \/ (body.event.type = "app_mention" /\ body.authed_users = <<>>)
           THEN SlackReturn(Response(500, "exception")) /\ UNCHANGED slack_posts
           ELSE IF text_for_agent(body) = <<>>
           THEN SlackReturn(Response(200, "OK")) /\ slack_posts' = Posting("greeting")
           ELSE wpc' = "invoking" /\ UNCHANGED <<slack_response, slack_posts>>
    /\ UNCHANGED <<clock, dateVars, handlerVars, supervisorVars, summaryVars, uploadVars,
                   slack_request, slack_now, cached_secrets, secret_store, verified, agent_calls>>

\* lines 186-238: the agent invoked and its answer, or the apology, posted
InvokeAgent ==
    /\ wpc = "invoking"
    /\ agent_calls' = Append(agent_calls,
                             [sessionId |-> <<slack_request.body.event.user, "C1">>,
                              inputText |-> text_for_agent(slack_request.body)])
    /\ \E answer \in {"text", "blank", "exception"} :
         slack_posts' = Posting(CASE answer = "text" -> "agent_response_text"
                                  [] answer = "blank" -> "no_response"
                                  [] OTHER -> "error_message")
    /\ SlackReturn(Response(200, "OK"))
    /\ UNCHANGED <<clock, dateVars, handlerVars, supervisorVars, summaryVars, uploadVars,
                   slack_request, slack_now, cached_secrets, secret_store, verified>>

NextSlack == Filter \/ Verify \/ Dispatch \/ InvokeAgent

SpecSlack == InitSlack /\ [][NextSlack]_vars

\* the request's signature is the one computed from the signing secret, the
\* request's timestamp and its body, and the timestamp is at most five
\* minutes from now
GenuineRequest ==
    /\ slack_request.lower
    /\ slack_request.signature.present
    /\ cached_secrets.slackSigningSecret # ""
    /\ slack_request.signature.secret = cached_secrets.slackSigningSecret
    /\ slack_request.signature.timestamp = slack_request.timestamp
    /\ slack_request.signature.body = slack_request.body
    /\ slack_request.timestamp.t = "num"
    /\ slack_request.timestamp.n >= slack_now - TimestampTolerance
    /\ slack_request.timestamp.n <= slack_now + TimestampTolerance

\* the event carries one of Slack's marks of a bot's message
FromBot ==
    /\ slack_request.body.kind = "event"
    /\ \/ slack_request.body.event.bot_id # ""
       \/ slack_request.body.event.subtype = "bot_message"
       \/ slack_request.body.event.user = "USLACKBOT"

\* C30: the agent runtime is invoked and a Slack message is posted only in
\* an invocation whose verify_slack_request returned true, which it does
\* only for a request whose signature matches and whose timestamp is within
\* five minutes; and a request with the retry header, a URL-verification
\* challenge or a bot's event never leads to an agent invocation.
C30_AgentOnlyForVerifiedUserRequests ==
    /\ (agent_calls # <<>> \/ slack_posts # <<>>) => (verified = "true" /\ GenuineRequest)
    /\ verified = "true" => GenuineRequest
    /\ (slack_request.retry \/ slack_request.body.kind = "challenge" \/ FromBot)
         => agent_calls = <<>>

\* a verified user's mention reached the agent and its answer was posted
C30_Witness ==
    /\ wpc = "done"
    /\ verified = "true"
    /\ Len(agent_calls) = 1
    /\ Len(slack_posts) = 1
    /\ slack_posts[1].message = "agent_response_text"

====
